---- MODULE Spec2Model ----
(***************************************************************************)
(* A model of the trading-signal gateway: the SQLite order store           *)
(* (order_management/manager.py), the position view                        *)
(* (position_management/manager.py), the two broker implementations        *)
(* (broker_interface/*.py), the configuration loader (config/loader.py),   *)
(* the signal processor (signal_processor/processor.py) and the Flask      *)
(* handlers (webhook_server/server.py).                                    *)
(*                                                                         *)
(* Conventions.                                                            *)
(*  - A value that may be Python None / SQL NULL is wrapped: Null is the   *)
(*    empty tuple and Some(v) the one-element tuple <<v>>.                 *)
(*  - A JSON object (Python dict) is a function from key strings to        *)
(*    values; a missing key is a key outside its DOMAIN.                   *)
(*  - A text (error message, exception text) is the sequence of its        *)
(*    words; the empty text is the empty sequence.                         *)
(*  - Numbers on the wire are decimal strings; float() parses them.        *)
(*    Prices are counted in 1/10000 ("1.0950" is 10950).                   *)
(*  - internal_order_id is the row's position in the table (a fresh uuid   *)
(*    per row in the source).                                              *)
(*  - A column holding JSON text (json.dumps of a dict with string keys)   *)
(*    holds the object the text encodes.                                   *)
(***************************************************************************)
EXTENDS Integers, Sequences, FiniteSets, Bags, TLC

VARIABLES
    columns,    \* the column names of the orders table (its schema)
    orders,     \* the rows of the orders table, in insertion order
    submitting, \* bag of submission handlers between create_order_record and the broker
                \* call: [endpoint, id, trade_params]
    cancelling, \* bag of cancel handlers blocked on broker.cancel_order: [id, oanda_order_id]
    resp,       \* the HTTP response the latest step sent (NoResponse when it sent none),
                \* with (history) the order it is about and the broker exchange behind it
    lastCall,   \* history: the latest direct call (of the store, of get_broker, of a broker's
                \* placement method), with its arguments and what it returned
    nreq,       \* number of POST requests (Spec) or store calls (StoreSpec, ClockSpec) so far
    placed,     \* history: bag of the broker placement calls made, [id, method]
    config_file,\* the content of config.yaml: the tree it encodes, None when there is no file
    _config,    \* config/loader.py's module global: the loaded tree, None before the first load
    _env_vars,  \* config/loader.py's module global: the variables captured from .env
    last_processed, \* history: the latest direct process_signal call, [signal_data, cfg, params, error]
                \* (signal_data alone while the call has not returned)
    clock,      \* datetime.now(timezone.utc), in ticks
    updating    \* bag of update_order_with_submission_response calls that have read the
                \* clock and not yet written: [id, oanda_response, oanda_error, now_utc]

\* the configuration loader's state and the latest signal processed under it
configVars == <<config_file, _config, _env_vars, last_processed>>

\* the clock and the store updates in flight
clockVars == <<clock, updating>>

vars ==
    <<columns, orders, submitting, cancelling, resp, lastCall, nreq, placed, configVars,
      clockVars>>

-----------------------------------------------------------------------------
(* Bounds *)

MaxOrders == 2          \* orders created in a run of Spec
MaxRequests == 3        \* POST requests (submissions and cancels) handled in a run of Spec
MaxStoreCalls == 3      \* store calls in a run of StoreSpec or ClockSpec
MaxFixtureRows == 3     \* rows the position fixture inserts in a run of PositionSpec

-----------------------------------------------------------------------------
(* Python / SQL primitives *)

Null == <<>>
Some(v) == <<v>>

EmptyDict == [k \in {} |-> k]

\* dict.get(key) on a dict d: None when the key is missing
Get(d, key) == IF key \in DOMAIN d THEN Some(d[key]) ELSE Null

\* truthiness of an optional text (None and "" are falsy)
TruthyText(t) == t # Null /\ Len(t[1]) > 0

\* truthiness of an optional dict (None and {} are falsy)
TruthyDict(d) == d # Null /\ DOMAIN d[1] # {}

\* `word in text`: substring search, on the words of the text
Contains(text, word) == \E i \in 1..Len(text) : text[i] = word

\* float(s) for the decimal strings that occur on the wire
float(s) ==
    CASE s = "-2" -> -2
      [] s = "-1" -> -1
      [] s = "0" -> 0
      [] s = "1" -> 1
      [] s = "2" -> 2
      [] s = "1.0950" -> 10950

\* str(n) for the integers the brokers put on the wire
str(n) ==
    CASE n = -2 -> "-2"
      [] n = -1 -> "-1"
      [] n = 0 -> "0"
      [] n = 1 -> "1"
      [] n = 2 -> "2"

abs(n) == IF n < 0 THEN -n ELSE n

\* float(d.get(key, 0.0))
FloatOrZero(d, key) == IF key \in DOMAIN d THEN float(d[key]) ELSE 0

\* json.dumps(x) if x else None
json_dumps_or_none(x) == IF TruthyDict(x) THEN x ELSE Null

-----------------------------------------------------------------------------
(* Order store: order_management/manager.py *)

\* CREATE TABLE orders (...): the columns initialize_database creates
OrdersColumns ==
    {"internal_order_id", "timestamp_received", "signal_data_json",
     "processed_params_json", "status", "oanda_order_id", "oanda_trade_id",
     "fill_price", "fill_quantity", "broker_response_json", "error_message",
     "timestamp_created", "timestamp_updated"}

\* the row create_order_record inserts: the three timestamps are the one
\* reading of the clock
NewOrderRow(internal_id, now_utc_iso, signal_data, processed_params) ==
    [internal_order_id |-> internal_id,
     timestamp_received |-> now_utc_iso,
     signal_data_json |-> json_dumps_or_none(Some(signal_data)),
     processed_params_json |-> json_dumps_or_none(Some(processed_params)),
     status |-> "PENDING_SUBMISSION",
     oanda_order_id |-> Null,
     oanda_trade_id |-> Null,
     fill_price |-> Null,
     fill_quantity |-> Null,
     broker_response_json |-> Null,
     error_message |-> Null,
     timestamp_created |-> now_utc_iso,
     timestamp_updated |-> now_utc_iso]

\* create_order_record giving the new row the id of the last one
create_order_record_reusing_id(table, signal_data, processed_params, now_utc_iso) ==
    Append(table, [internal_order_id |-> Len(table),
                   timestamp_received |-> now_utc_iso,
                   signal_data_json |-> json_dumps_or_none(Some(signal_data)),
                   processed_params_json |-> json_dumps_or_none(Some(processed_params)),
                   status |-> "PENDING_SUBMISSION",
                   oanda_order_id |-> Null,
                   oanda_trade_id |-> Null,
                   fill_price |-> Null,
                   fill_quantity |-> Null,
                   broker_response_json |-> Null,
                   error_message |-> Null,
                   timestamp_created |-> now_utc_iso,
                   timestamp_updated |-> now_utc_iso])

\* the table after create_order_record at time now_utc_iso; the new row's id
\* is its position
create_order_record(table, signal_data, processed_params, now_utc_iso) ==
    Append(table, NewOrderRow(Len(table) + 1, now_utc_iso, signal_data, processed_params))

\* the orderFillTransaction branch reading the broker order id from the
\* transaction's own id
OandaFillFields_by_transaction_id(fill_tx) ==
    (IF "tradeOpened" \in DOMAIN fill_tx /\ DOMAIN fill_tx.tradeOpened # {}
        THEN [oanda_trade_id |-> Get(fill_tx.tradeOpened, "tradeID")]
        ELSE EmptyDict)
    @@ [status |-> "FILLED",
        oanda_order_id |-> Get(fill_tx, "id"),
        fill_price |-> Some(FloatOrZero(fill_tx, "price")),
        fill_quantity |-> Some(FloatOrZero(fill_tx, "units"))]

\* the Oanda orderFillTransaction branch
OandaFillFields(fill_tx) ==
    (IF "tradeOpened" \in DOMAIN fill_tx /\ DOMAIN fill_tx.tradeOpened # {}
        THEN [oanda_trade_id |-> Get(fill_tx.tradeOpened, "tradeID")]
        ELSE EmptyDict)
    @@ [status |-> "FILLED",
        oanda_order_id |-> Get(fill_tx, "orderID"),
        fill_price |-> Some(FloatOrZero(fill_tx, "price")),
        fill_quantity |-> Some(FloatOrZero(fill_tx, "units"))]

\* the Alpaca order-entity branch taking only status accepted as accepted
AlpacaEntityFields_accepted_only(r) ==
    LET alpaca_status == Get(r, "status") IN
    [oanda_order_id |-> Get(r, "id")]
    @@ (IF alpaca_status = Some("accepted")
           THEN [status |-> "ORDER_ACCEPTED"]
        ELSE IF alpaca_status = Some("filled")
           THEN [status |-> "FILLED",
                 fill_quantity |-> Some(FloatOrZero(r, "filled_qty")),
                 fill_price |-> Some(FloatOrZero(r, "filled_avg_price"))]
        ELSE EmptyDict)

\* the Alpaca order-entity branch
AlpacaEntityFields(r) ==
    LET alpaca_status == Get(r, "status") IN
    [oanda_order_id |-> Get(r, "id")]
    @@ (IF alpaca_status \in {Some("accepted"), Some("pending_new"), Some("new")}
           THEN [status |-> "ORDER_ACCEPTED"]
        ELSE IF alpaca_status = Some("filled")
           THEN [status |-> "FILLED",
                 fill_quantity |-> Some(FloatOrZero(r, "filled_qty")),
                 fill_price |-> Some(FloatOrZero(r, "filled_avg_price"))]
        ELSE EmptyDict)

\* the status and captured fields of a truthy reply without error
ReplyFields(r) ==
    IF "orderFillTransaction" \in DOMAIN r
        THEN OandaFillFields(r.orderFillTransaction)
    ELSE IF "orderCreateTransaction" \in DOMAIN r
        THEN [status |-> "ORDER_ACCEPTED",
              oanda_order_id |-> Get(r.orderCreateTransaction, "id")]
    ELSE IF "orderCancelTransaction" \in DOMAIN r
        THEN [status |-> "CANCELLED",
              oanda_order_id |-> Get(r.orderCancelTransaction, "orderID"),
              error_message |->
                  Some(<<"Order", "cancelled", "by", "broker.", "Reason:">>
                       \o (IF "reason" \in DOMAIN r.orderCancelTransaction
                              THEN <<r.orderCancelTransaction.reason>>
                              ELSE <<"None">>))]
    ELSE IF "id" \in DOMAIN r /\ "client_order_id" \in DOMAIN r
        THEN AlpacaEntityFields(r) @@ [status |-> "SUBMITTED_TO_BROKER"]
    ELSE [status |-> "SUBMITTED_TO_BROKER"]

\* the status an error text is stored under
ErrorStatus(broker_error) ==
    IF Contains(broker_error, "Oanda") \/ Contains(broker_error, "Alpaca")
        THEN "REJECTED_BY_BROKER"
        ELSE "ERROR_SUBMITTING"

\* fields_to_update with timestamp_created among the columns set
fields_to_update_stamping_created(broker_response, broker_error, now_utc) ==
    (IF TruthyText(broker_error)
        THEN [status |-> ErrorStatus(broker_error[1]),
              error_message |-> broker_error]
     ELSE IF TruthyDict(broker_response)
        THEN ReplyFields(broker_response[1])
     ELSE EmptyDict)
    @@ [timestamp_updated |-> now_utc,
        timestamp_created |-> now_utc,
        broker_response_json |-> json_dumps_or_none(broker_response)]

\* fields_to_update parsing the reply even when an error is given
fields_to_update_parsing_reply(broker_response, broker_error, now_utc) ==
    (IF TruthyText(broker_error)
        THEN [status |-> ErrorStatus(broker_error[1]),
              error_message |-> broker_error]
     ELSE EmptyDict)
    @@ (IF TruthyDict(broker_response) THEN ReplyFields(broker_response[1]) ELSE EmptyDict)
    @@ [timestamp_updated |-> now_utc,
        broker_response_json |-> json_dumps_or_none(broker_response)]

\* fields_to_update: the columns the UPDATE statement sets, with their values
fields_to_update(broker_response, broker_error, now_utc) ==
    (IF TruthyText(broker_error)
        THEN [status |-> ErrorStatus(broker_error[1]),
              error_message |-> broker_error]
     ELSE IF TruthyDict(broker_response)
        THEN ReplyFields(broker_response[1])
     ELSE EmptyDict)
    @@ [timestamp_updated |-> now_utc,
        broker_response_json |-> json_dumps_or_none(broker_response)]

\* UPDATE orders SET <fields> WHERE internal_order_id = ?
UpdateRow(row, fields) ==
    [c \in DOMAIN row |-> IF c \in DOMAIN fields THEN fields[c] ELSE row[c]]

\* update_order_with_submission_response inserting a row for an unknown id
update_order_with_submission_response_upserting(table, internal_order_id, oanda_response, oanda_error, now_utc) ==
    IF internal_order_id \notin 1..Len(table)
        THEN Append(table, UpdateRow(NewOrderRow(Len(table) + 1, now_utc, EmptyDict, EmptyDict),
                                     fields_to_update(oanda_response, oanda_error, now_utc)))
        ELSE [table EXCEPT ![internal_order_id] =
                 UpdateRow(@, fields_to_update(oanda_response, oanda_error, now_utc))]

\* the table after update_order_with_submission_response, which read the
\* clock at now_utc; an unknown id changes nothing
update_order_with_submission_response(table, internal_order_id, oanda_response, oanda_error, now_utc) ==
    IF internal_order_id \notin 1..Len(table)
        THEN table
        ELSE [table EXCEPT ![internal_order_id] =
                 UpdateRow(@, fields_to_update(oanda_response, oanda_error, now_utc))]

\* get_order_by_id: the row, or None
get_order_by_id(table, internal_order_id) ==
    IF internal_order_id \in 1..Len(table) THEN Some(table[internal_order_id]) ELSE Null

-----------------------------------------------------------------------------
(* Configuration: config/loader.py.  A tree is the dict yaml.safe_load      *)
(* returns; a list in it is a sequence.                                     *)

\* _load_yaml_config(config_path): the tree in the file, {} when there is no file
_load_yaml_config(file) == IF file = Null THEN EmptyDict ELSE file[1]

\* _config["oanda"]["base_url"] = url, the oanda section created when missing
WithBaseUrl(tree, url) ==
    [k \in DOMAIN tree \cup {"oanda"} |->
        IF k = "oanda"
            THEN [base_url |-> url]
                 @@ (IF "oanda" \in DOMAIN tree THEN tree.oanda ELSE EmptyDict)
            ELSE tree[k]]

\* the value of _config after initialize_config(): loaded only while _config
\* is None, OANDA_API_URL from .env overriding oanda.base_url
initialize_config(loaded, file, env) ==
    IF loaded # Null THEN loaded[1]
    ELSE LET yaml_data == _load_yaml_config(file) IN
         IF "OANDA_API_URL" \in DOMAIN env
            THEN WithBaseUrl(yaml_data, env.OANDA_API_URL)
            ELSE yaml_data

\* whether a call initialize_config(**kwargs) binds: the parameters of
\* initialize_config are config_path and env_path (TypeError otherwise)
initialize_config_accepts(kwargs) == kwargs \subseteq {"config_path", "env_path"}

\* the loop of get(): follow the parts of a dotted key path down the tree
RECURSIVE config_walk(_, _)
config_walk(value, parts) ==
    IF parts = <<>> THEN Some(value)
    ELSE IF Head(parts) \in DOMAIN value THEN config_walk(value[Head(parts)], Tail(parts))
    ELSE Null

\* get(key_path, default) for a key path that is not a .env key
config_get(tree, parts, default) ==
    LET value == config_walk(tree, parts) IN
    IF value = Null THEN default ELSE value[1]

\* truthiness of an optional string (None and "" are falsy)
TruthyString(s) == s # Null /\ s[1] # ""

\* get(key_path, default): a key captured from .env first, then the path in
\* the loaded tree; the result is None (or the default) when the path is
\* missing
get(env, tree, parts, default) ==
    IF Len(parts) = 1 /\ parts[1] \in DOMAIN env THEN Some(env[parts[1]])
    ELSE LET value == config_walk(tree, parts) IN
         IF value = Null THEN default ELSE value

\* the elements of a list
ListItems(list) == {list[i] : i \in 1..Len(list)}

\* what process_signal reads of the loaded tree, with its defaults
TradingConfig(tree) ==
    [allowed_instruments |->
         ListItems(config_get(tree, <<"trading", "allowed_instruments">>, <<>>)),
     default_quantity |-> config_get(tree, <<"trading", "defaults", "quantity">>, 1),
     default_order_type |-> config_get(tree, <<"trading", "defaults", "order_type">>, "MARKET"),
     instrument_settings |->
         config_get(tree, <<"trading", "instrument_settings">>, EmptyDict)]

-----------------------------------------------------------------------------
(* Signal processor: signal_processor/processor.py *)

\* str.upper() / str.lower() on the strings that occur in signals
upper(s) ==
    CASE s = "eur_usd" -> "EUR_USD"
      [] s = "usd_jpy" -> "USD_JPY"
      [] s = "market" -> "MARKET"
      [] s = "limit" -> "LIMIT"
      [] s = "stop" -> "STOP"
      [] s = "buy" -> "BUY"
      [] s = "sell" -> "SELL"
      [] s = "hold" -> "HOLD"
      [] s = "iceberg" -> "ICEBERG"
      [] OTHER -> s

lower(s) ==
    CASE s = "EUR_USD" -> "eur_usd"
      [] s = "USD_JPY" -> "usd_jpy"
      [] s = "MARKET" -> "market"
      [] s = "LIMIT" -> "limit"
      [] s = "STOP" -> "stop"
      [] s = "BUY" -> "buy"
      [] s = "SELL" -> "sell"
      [] s = "HOLD" -> "hold"
      [] s = "ICEBERG" -> "iceberg"
      [] s = "OANDA" -> "oanda"
      [] s = "DAY" -> "day"
      [] OTHER -> s

\* config_get('trading.instrument_settings.<instrument>.<key>'): None when the path is missing
instrument_setting(cfg, instrument, key) ==
    IF instrument \in DOMAIN cfg.instrument_settings
        THEN Get(cfg.instrument_settings[instrument], key)
        ELSE Null

SignalError(words) == [params |-> Null, error |-> Some(words)]

\* process_quantity returning the quantity as units whatever the action
process_quantity_unsigned(cfg, instrument, action, quantity_from_signal) ==
    LET instr_specific_qty == instrument_setting(cfg, instrument, "default_quantity")
        final_quantity ==
            IF quantity_from_signal # Null THEN quantity_from_signal[1]
            ELSE IF instr_specific_qty # Null THEN instr_specific_qty[1]
            ELSE cfg.default_quantity
        min_qty == instrument_setting(cfg, instrument, "min_quantity")
        max_qty == instrument_setting(cfg, instrument, "max_quantity")
    IN  IF final_quantity <= 0
            THEN SignalError(<<"Invalid", "quantity:", str(final_quantity)>>)
        ELSE IF min_qty # Null /\ final_quantity < min_qty[1]
            THEN SignalError(<<"Quantity", str(final_quantity), "for", instrument,
                               "is", "below", "minimum", "allowed">>)
        ELSE IF max_qty # Null /\ final_quantity > max_qty[1]
            THEN SignalError(<<"Quantity", str(final_quantity), "for", instrument,
                               "exceeds", "maximum", "allowed">>)
        ELSE [params |-> Some([instrument |-> instrument,
                               units |-> final_quantity,
                               order_type |-> "MARKET"]),
              error |-> Null]

\* process_quantity falling back to the global default only
process_quantity_global_default(cfg, instrument, action, quantity_from_signal) ==
    LET final_quantity ==
            IF quantity_from_signal # Null THEN quantity_from_signal[1]
            ELSE cfg.default_quantity
        min_qty == instrument_setting(cfg, instrument, "min_quantity")
        max_qty == instrument_setting(cfg, instrument, "max_quantity")
    IN  IF final_quantity <= 0
            THEN SignalError(<<"Invalid", "quantity:", str(final_quantity)>>)
        ELSE IF min_qty # Null /\ final_quantity < min_qty[1]
            THEN SignalError(<<"Quantity", str(final_quantity), "for", instrument,
                               "is", "below", "minimum", "allowed">>)
        ELSE IF max_qty # Null /\ final_quantity > max_qty[1]
            THEN SignalError(<<"Quantity", str(final_quantity), "for", instrument,
                               "exceeds", "maximum", "allowed">>)
        ELSE [params |-> Some([instrument |-> instrument,
                               units |-> IF action = "buy" THEN final_quantity
                                                           ELSE -final_quantity,
                               order_type |-> "MARKET"]),
              error |-> Null]

\* steps 3 and 4 and the min/max checks, then the conversion to units
process_quantity(cfg, instrument, action, quantity_from_signal) ==
    LET instr_specific_qty == instrument_setting(cfg, instrument, "default_quantity")
        final_quantity ==
            IF quantity_from_signal # Null THEN quantity_from_signal[1]
            ELSE IF instr_specific_qty # Null THEN instr_specific_qty[1]
            ELSE cfg.default_quantity
        min_qty == instrument_setting(cfg, instrument, "min_quantity")
        max_qty == instrument_setting(cfg, instrument, "max_quantity")
    IN  IF final_quantity <= 0
            THEN SignalError(<<"Invalid", "quantity:", str(final_quantity)>>)
        ELSE IF min_qty # Null /\ final_quantity < min_qty[1]
            THEN SignalError(<<"Quantity", str(final_quantity), "for", instrument,
                               "is", "below", "minimum", "allowed">>)
        ELSE IF max_qty # Null /\ final_quantity > max_qty[1]
            THEN SignalError(<<"Quantity", str(final_quantity), "for", instrument,
                               "exceeds", "maximum", "allowed">>)
        ELSE [params |-> Some([instrument |-> instrument,
                               units |-> IF action = "buy" THEN final_quantity
                                                           ELSE -final_quantity,
                               order_type |-> "MARKET"]),
              error |-> Null]

\* process_signal(signal_data) under the configuration cfg: (trade_parameters, error)
process_signal(cfg, signal_data) ==
    IF "instrument" \notin DOMAIN signal_data
        THEN SignalError(<<"Missing", "required", "signal", "field:", "instrument">>)
    ELSE IF "action" \notin DOMAIN signal_data
        THEN SignalError(<<"Missing", "required", "signal", "field:", "action">>)
    ELSE
        LET instrument == upper(signal_data.instrument)
            action == lower(signal_data.action)
        IN  IF instrument = ""
                THEN SignalError(<<"Instrument", "field", "is", "missing", "or", "empty">>)
            ELSE IF cfg.allowed_instruments # {} /\ instrument \notin cfg.allowed_instruments
                THEN SignalError(<<"Instrument", instrument, "is", "not", "in",
                                   "allowed_instruments">>)
            ELSE IF action \notin {"buy", "sell"}
                THEN SignalError(<<"Invalid", "action:", action>>)
            ELSE process_quantity(cfg, instrument, action, Get(signal_data, "quantity"))

-----------------------------------------------------------------------------
(* Broker implementations: broker_interface/oanda_implementation.py,       *)
(* broker_interface/alpaca_implementation.py.                              *)
(*                                                                         *)
(* An HTTP exchange with the remote broker ends in one of                  *)
(*   [outcome |-> "ok", json |-> body]              a 2xx response         *)
(*   [outcome |-> "HTTPError", text, body]          raise_for_status raised*)
(*   [outcome |-> "RequestException", text]         no response at all     *)
(* where an error body is [is_json |-> TRUE, json |-> d] or                *)
(* [is_json |-> FALSE, status_code, text].                                 *)
(***************************************************************************)

\* how a constructor or the factory ends: an exception, or the instance
Raises(type, text) == [raised |-> Some([type |-> type, text |-> text]), broker |-> Null]
Returns(broker) == [raised |-> Null, broker |-> Some(broker)]

\* OandaBroker(): its settings from the loader, ValueError when one is missing
OandaBroker_init(env, tree) ==
    LET api_key == get(env, tree, <<"OANDA_API_KEY">>, Null)
        account_id == get(env, tree, <<"OANDA_ACCOUNT_ID">>, Null)
        base_url == get(env, tree, <<"brokers", "oanda", "base_url">>,
                        get(env, tree, <<"OANDA_API_URL">>, Null))
    IN  IF TruthyString(api_key) /\ TruthyString(account_id) /\ TruthyString(base_url)
            THEN Returns([class |-> "OandaBroker", api_key |-> api_key[1],
                          account_id |-> account_id[1], base_url |-> base_url[1]])
            ELSE Raises("ValueError", <<"OANDA", "API", "credentials", "or", "URL", "not",
                                        "fully", "configured.">>)

\* AlpacaBroker(): its settings from the loader, ValueError when one is missing
AlpacaBroker_init(env, tree) ==
    LET api_key_id == get(env, tree, <<"ALPACA_API_KEY_ID">>, Null)
        secret_key == get(env, tree, <<"ALPACA_API_SECRET_KEY">>, Null)
        base_url == get(env, tree, <<"brokers", "alpaca", "base_url">>, Null)
    IN  IF TruthyString(api_key_id) /\ TruthyString(secret_key) /\ TruthyString(base_url)
            THEN Returns([class |-> "AlpacaBroker", api_key_id |-> api_key_id[1],
                          secret_key |-> secret_key[1], base_url |-> base_url[1]])
            ELSE Raises("ValueError", <<"Alpaca", "API", "credentials", "or", "URL", "not",
                                        "fully", "configured.">>)

\* the classes get_broker can instantiate
BROKER_MAPPING == [oanda |-> "OandaBroker"]

\* get_broker(): the class named by broker.name, instantiated
get_broker(env, tree) ==
    LET broker_name == get(env, tree, <<"broker", "name">>, Null) IN
    IF ~TruthyString(broker_name)
        THEN Raises("ValueError", <<"Broker", "not", "specified", "in", "configuration.">>)
    ELSE LET broker_class == Get(BROKER_MAPPING, lower(broker_name[1])) IN
         IF broker_class = Null
             THEN Raises("ValueError", <<"Unsupported", "broker:", lower(broker_name[1])>>)
         ELSE IF broker_class[1] = "OandaBroker" THEN OandaBroker_init(env, tree)
         ELSE AlpacaBroker_init(env, tree)

BrokerResult(reply, error) == [reply |-> reply, error |-> error]

\* reason = d.get("errorMessage") or d.get(reject_key, {}).get("rejectReason")
OandaErrorReason(d, reject_key) ==
    LET message == Get(d, "errorMessage") IN
    IF message # Null /\ message[1] # "" THEN message
    ELSE IF reject_key \in DOMAIN d THEN Get(d[reject_key], "rejectReason")
    ELSE Null

\* what an OandaBroker method returns for the outcome of its HTTP exchange;
\* doing is the method's wording ("placing order:", "cancelling order <id>:")
OandaBroker_result(doing, reject_key, http) ==
    IF http.outcome = "ok" THEN BrokerResult(Some(http.json), Null)
    ELSE IF http.outcome = "HTTPError" THEN
        IF http.body.is_json THEN
            LET reason == OandaErrorReason(http.body.json, reject_key) IN
            IF reason # Null /\ reason[1] # ""
                THEN BrokerResult(Null, Some(<<"Oanda", "Error:", reason[1]>>))
                ELSE BrokerResult(Null, Some(<<"HTTP", "error">> \o doing \o http.text))
        ELSE BrokerResult(Null, Some(<<"Oanda", "HTTP", "error", "(non-JSON", "response):",
                                       http.body.status_code, "-">> \o http.body.text))
    ELSE BrokerResult(Null, Some(<<"Request", "exception">> \o doing \o http.text))

\* the JSON OandaBroker posts to /v3/accounts/{id}/orders (without SL/TP)
OandaOrderRequest(type, instrument, units) ==
    [order |-> [units |-> str(units), instrument |-> instrument, type |-> type,
                positionFill |-> "DEFAULT"]]

OandaBroker_place_market_order(http) ==
    OandaBroker_result(<<"placing", "order:">>, "orderRejectTransaction", http)

OandaBroker_place_limit_order(http) ==
    OandaBroker_result(<<"placing", "limit", "order:">>, "orderRejectTransaction", http)

OandaBroker_place_stop_order(http) ==
    OandaBroker_result(<<"placing", "stop", "order:">>, "orderRejectTransaction", http)

OandaBroker_cancel_order(order_id, http) ==
    OandaBroker_result(<<"cancelling", "order", order_id, ":">>,
                       "orderCancelRejectTransaction", http)

\* what an AlpacaBroker placement method returns for the outcome of its HTTP exchange
AlpacaBroker_result(doing, http) ==
    IF http.outcome = "ok" THEN BrokerResult(Some(http.json), Null)
    ELSE IF http.outcome = "HTTPError" THEN
        BrokerResult(Null,
            Some(<<"HTTP", "error">> \o doing \o http.text
                 \o (IF http.body.is_json
                        THEN <<"|", "Details:",
                               IF "message" \in DOMAIN http.body.json
                                  THEN http.body.json.message
                                  ELSE "No details provided.">>
                        ELSE <<"|", "Response:">> \o http.body.text)))
    ELSE BrokerResult(Null, Some(<<"Request", "exception">> \o doing \o http.text))

\* the JSON AlpacaBroker posts to /v2/orders (without SL/TP)
AlpacaOrderRequest(type, instrument, units) ==
    [symbol |-> instrument,
     qty |-> abs(units),
     side |-> IF units > 0 THEN "buy" ELSE "sell",
     type |-> type]

\* `if stop_loss:` on an optional price: None and 0.0 are falsy
TruthyNumber(x) == x # Null /\ x[1] # 0

\* order_data with qty = units, the sign kept
AlpacaBroker_order_data_signed_qty(method, env, tree, instrument, units, price, stop_loss, take_profit) ==
    LET type == IF method = "place_market_order" THEN "market"
                ELSE IF method = "place_limit_order" THEN "limit" ELSE "stop"
        time_in_force ==
            IF method = "place_market_order" THEN "day"
            ELSE lower(get(env, tree, <<"trading", "defaults", "time_in_force">>,
                           Some("gtc"))[1])
    IN  [qty |-> units]
        @@ AlpacaOrderRequest(type, instrument, units)
        @@ [time_in_force |-> time_in_force]
        @@ (IF method = "place_limit_order" THEN [limit_price |-> price[1]]
            ELSE IF method = "place_stop_order" THEN [stop_price |-> price[1]]
            ELSE EmptyDict)
        @@ (IF TruthyNumber(stop_loss) \/ TruthyNumber(take_profit)
                THEN [order_class |-> "bracket"] ELSE EmptyDict)
        @@ (IF TruthyNumber(stop_loss)
                THEN [stop_loss |-> [stop_price |-> stop_loss[1]]] ELSE EmptyDict)
        @@ (IF TruthyNumber(take_profit)
                THEN [take_profit |-> [limit_price |-> take_profit[1]]] ELSE EmptyDict)

\* order_data, the JSON a placement method of AlpacaBroker posts to /v2/orders:
\* the translated order, the price under the key of its type, and the
\* bracket with the stop loss and take profit that are truthy
AlpacaBroker_order_data(method, env, tree, instrument, units, price, stop_loss, take_profit) ==
    LET type == IF method = "place_market_order" THEN "market"
                ELSE IF method = "place_limit_order" THEN "limit" ELSE "stop"
        time_in_force ==
            IF method = "place_market_order" THEN "day"
            ELSE lower(get(env, tree, <<"trading", "defaults", "time_in_force">>,
                           Some("gtc"))[1])
    IN  AlpacaOrderRequest(type, instrument, units)
        @@ [time_in_force |-> time_in_force]
        @@ (IF method = "place_limit_order" THEN [limit_price |-> price[1]]
            ELSE IF method = "place_stop_order" THEN [stop_price |-> price[1]]
            ELSE EmptyDict)
        @@ (IF TruthyNumber(stop_loss) \/ TruthyNumber(take_profit)
                THEN [order_class |-> "bracket"] ELSE EmptyDict)
        @@ (IF TruthyNumber(stop_loss)
                THEN [stop_loss |-> [stop_price |-> stop_loss[1]]] ELSE EmptyDict)
        @@ (IF TruthyNumber(take_profit)
                THEN [take_profit |-> [limit_price |-> take_profit[1]]] ELSE EmptyDict)

AlpacaBroker_place_order(http) ==
    AlpacaBroker_result(<<"placing", "Alpaca", "order:">>, http)

\* cancel_order: an empty 2xx becomes a synthesized reply
AlpacaBroker_cancel_order(order_id, http) ==
    IF http.outcome = "ok"
        THEN BrokerResult(Some([status |-> "cancellation_requested", order_id |-> order_id]),
                          Null)
        ELSE AlpacaBroker_result(<<"cancelling", "Alpaca", "order", order_id, ":">>, http)

\* the routing with the MARKET and LIMIT branches swapped
placement_method_swapped(order_type) ==
    IF order_type = "MARKET" THEN Some("place_limit_order")
    ELSE IF order_type = "LIMIT" THEN Some("place_market_order")
    ELSE IF order_type = "STOP" THEN Some("place_stop_order")
    ELSE Null

\* the broker method the handlers' routing invokes for an order_type; None:
\* no method is invoked
placement_method(order_type) ==
    IF order_type = "MARKET" THEN Some("place_market_order")
    ELSE IF order_type = "LIMIT" THEN Some("place_limit_order")
    ELSE IF order_type = "STOP" THEN Some("place_stop_order")
    ELSE Null

\* the placement method the handlers select by order_type, applied to the
\* outcome of its HTTP exchange; an unknown type is an error without a call
place_order(broker, order_type, http) ==
    IF order_type \notin {"MARKET", "LIMIT", "STOP"}
        THEN BrokerResult(Null, Some(<<"Unknown", "order", "type", order_type>>))
    ELSE IF broker = "alpaca" THEN AlpacaBroker_place_order(http)
    ELSE IF order_type = "MARKET" THEN OandaBroker_place_market_order(http)
    ELSE IF order_type = "LIMIT" THEN OandaBroker_place_limit_order(http)
    ELSE OandaBroker_place_stop_order(http)

cancel_order(broker, order_id, http) ==
    IF broker = "alpaca" THEN AlpacaBroker_cancel_order(order_id, http)
                         ELSE OandaBroker_cancel_order(order_id, http)

\* the request a placement method sends
order_request(broker, params) ==
    IF broker = "alpaca"
        THEN AlpacaOrderRequest(lower(params.order_type), params.instrument, params.units)
        ELSE OandaOrderRequest(params.order_type, params.instrument, params.units)

-----------------------------------------------------------------------------
(* The remote brokers: what an HTTP exchange can end in *)

BrokerOrderIds == {"o1", "o2"}

TransportFailures ==
    {[outcome |-> "RequestException", text |-> <<"Connection", "refused">>],
     [outcome |-> "RequestException", text |-> <<"Read", "timed", "out.">>]}

HttpError(body) ==
    [outcome |-> "HTTPError", text |-> <<"400", "Client", "Error">>, body |-> body]

JsonBody(d) == [is_json |-> TRUE, json |-> d]

NonJsonBody == [is_json |-> FALSE, status_code |-> "502", text |-> <<"Bad", "Gateway">>]

\* 2xx bodies of Oanda's POST /orders for a request, the broker naming the order oid
OandaOrderReplies(request, oid) ==
    {[orderCreateTransaction |-> [id |-> oid],
      orderFillTransaction |-> [orderID |-> oid, tradeOpened |-> [tradeID |-> "t1"],
                                price |-> "1.0950", units |-> request.order.units]],
     [orderFillTransaction |-> [orderID |-> oid]],
     [orderCreateTransaction |-> [id |-> oid]],
     [orderCreateTransaction |-> [id |-> oid],
      orderCancelTransaction |-> [orderID |-> oid, reason |-> "MARKET_HALTED"]],
     [relatedTransactionIDs |-> <<"t1">>],
     EmptyDict}

OandaOrderExchanges(request, oids) ==
    {[outcome |-> "ok", json |-> body] :
        body \in UNION {OandaOrderReplies(request, oid) : oid \in oids}}
    \cup {HttpError(JsonBody([orderRejectTransaction |->
                                  [rejectReason |-> "INSUFFICIENT_MARGIN"]])),
          HttpError(JsonBody([errorCode |-> "UNKNOWN"])),
          HttpError(NonJsonBody)}
    \cup TransportFailures

\* OandaCancelExchanges with a reply reporting the order filled
OandaCancelExchanges_reporting_fill(order_id) ==
    {[outcome |-> "ok",
      json |-> [orderFillTransaction |->
                    [orderID |-> order_id, tradeOpened |-> [tradeID |-> "t1"],
                     price |-> "1.0950", units |-> "1"]]]}
    \cup TransportFailures

\* outcomes of Oanda's PUT /orders/{order_id}/cancel
OandaCancelExchanges(order_id) ==
    {[outcome |-> "ok",
      json |-> [orderCancelTransaction |->
                    [orderID |-> order_id, reason |-> "CLIENT_REQUEST_CANCEL"]]],
     [outcome |-> "ok", json |-> [relatedTransactionIDs |-> <<"t1">>]],
     HttpError(JsonBody([orderCancelRejectTransaction |->
                             [rejectReason |-> "ORDER_DOESNT_EXIST"]]))}
    \cup TransportFailures

\* 2xx bodies of Alpaca's POST /v2/orders: the order entity; qty and filled_qty
\* are absolute quantities, the direction is in side
AlpacaOrderReplies(request, oid) ==
    {[id |-> oid, client_order_id |-> "c1", status |-> "accepted", side |-> request.side,
      filled_qty |-> "0"],
     [id |-> oid, client_order_id |-> "c1", status |-> "accepted", side |-> request.side,
      filled_qty |-> "0", order_class |-> "bracket"],
     [id |-> oid, client_order_id |-> "c1", status |-> "new", side |-> request.side,
      filled_qty |-> "0"],
     [id |-> oid, client_order_id |-> "c1", status |-> "pending_new", side |-> request.side,
      filled_qty |-> "0"],
     [id |-> oid, client_order_id |-> "c1", status |-> "partially_filled",
      side |-> request.side, filled_qty |-> "1", filled_avg_price |-> "1.0950"],
     [id |-> oid, client_order_id |-> "c1", status |-> "filled", side |-> request.side,
      filled_qty |-> str(request.qty), filled_avg_price |-> "1.0950"],
     [id |-> oid, client_order_id |-> "c1", status |-> "filled", side |-> request.side]}

AlpacaOrderExchanges(request, oids) ==
    {[outcome |-> "ok", json |-> body] :
        body \in UNION {AlpacaOrderReplies(request, oid) : oid \in oids}}
    \cup {HttpError(JsonBody([message |-> "insufficient buying power"])),
          HttpError(NonJsonBody)}
    \cup TransportFailures

\* outcomes of Alpaca's DELETE /v2/orders/{order_id}: an empty 204, or a failure
AlpacaCancelExchanges(order_id) ==
    {[outcome |-> "ok", json |-> EmptyDict],
     HttpError(JsonBody([message |-> "order is not cancelable"]))}
    \cup TransportFailures

order_exchanges(broker, request, oids) ==
    IF broker = "alpaca" THEN AlpacaOrderExchanges(request, oids)
                         ELSE OandaOrderExchanges(request, oids)

cancel_exchanges(broker, order_id) ==
    IF broker = "alpaca" THEN AlpacaCancelExchanges(order_id)
                         ELSE OandaCancelExchanges(order_id)

-----------------------------------------------------------------------------
(* Position view: position_management/manager.py *)

RECURSIVE SumOver(_, _)
SumOver(table, I) ==
    IF I = {} THEN 0
    ELSE LET i == CHOOSE j \in I : TRUE
         IN  table[i].fill_quantity[1] + SumOver(table, I \ {i})

\* SQL SUM(fill_quantity) over the rows I: NULLs are skipped, NULL when nothing is left
SqlSum(table, I) ==
    LET J == {i \in I : table[i].fill_quantity # Null}
    IN  IF J = {} THEN Null ELSE Some(SumOver(table, J))

\* the query raises sqlite3.Error: the table has no such column, or the database fails
QueryFails(cols, db_error) == db_error \/ "instrument" \notin cols

\* get_position with the status = 'FILLED' condition left out of its WHERE clause
get_position_any_status(table, cols, instrument, db_error) ==
    IF QueryFails(cols, db_error) THEN 0
    ELSE LET net_position ==
                 SqlSum(table, {i \in 1..Len(table) :
                                   table[i].instrument = Some(instrument)})
         IN  IF net_position # Null THEN net_position[1] ELSE 0

\* get_position(instrument); db_error: the database raises sqlite3.Error
get_position(table, cols, instrument, db_error) ==
    IF QueryFails(cols, db_error) THEN 0
    ELSE LET net_position ==
                 SqlSum(table, {i \in 1..Len(table) :
                                   /\ table[i].instrument = Some(instrument)
                                   /\ table[i].status = "FILLED"})
         IN  IF net_position # Null THEN net_position[1] ELSE 0

\* get_all_positions(): [raised, value]; raised: float(None) raises TypeError
get_all_positions(table, cols, db_error) ==
    IF QueryFails(cols, db_error) THEN [raised |-> FALSE, value |-> EmptyDict]
    ELSE LET filled == {i \in 1..Len(table) : table[i].status = "FILLED"}
             groups == {table[i].instrument : i \in filled}
             net_position(g) == SqlSum(table, {i \in filled : table[i].instrument = g})
         IN  IF \E g \in groups : net_position(g) = Null
                THEN [raised |-> TRUE, value |-> EmptyDict]
                ELSE [raised |-> FALSE,
                      value |-> [g \in {h \in groups : net_position(h)[1] # 0}
                                    |-> net_position(g)[1]]]

-----------------------------------------------------------------------------
(* HTTP surface: webhook_server/server.py *)

\* the configuration process_signal reads: the loaded tree's trading section
ServerConfig == TradingConfig(_config[1])

\* the broker get_broker() instantiates: BROKER_MAPPING holds "oanda" only
ActiveBroker == "oanda"

Instruments == {"EUR_USD", "USD_JPY"}

\* signals posted to /orders: a valid one (lower-case instrument, default
\* quantity) and one with an invalid action
Signals ==
    {[instrument |-> "usd_jpy", action |-> "sell"],
     [instrument |-> "EUR_USD", action |-> "hold", quantity |-> 1]}

\* the secret handle_webhook compares webhook_secret with (None: no check)
WEBHOOK_SHARED_SECRET == Some("testsecret123")

\* an HTTP request body: not JSON at all, or the JSON object it parses to
NotJson == [is_json |-> FALSE]
Json(d) == [is_json |-> TRUE, json |-> d]

\* a signal as the alert sender posts it, with its webhook_secret field
WithSecret(signal_data, secret) == [webhook_secret |-> secret] @@ signal_data

\* bodies posted to /webhook: a valid and an invalid signal with the right
\* secret, and the valid one with a wrong secret and with none
WebhookRequests ==
    {NotJson,
     Json(WithSecret([instrument |-> "EUR_USD", action |-> "buy", quantity |-> 1],
                     "testsecret123")),
     Json(WithSecret([instrument |-> "EUR_USD", action |-> "hold", quantity |-> 1],
                     "testsecret123")),
     Json(WithSecret([instrument |-> "EUR_USD", action |-> "buy", quantity |-> 1],
                     "wrongsecret")),
     Json([instrument |-> "EUR_USD", action |-> "buy", quantity |-> 1])}

\* bodies posted to /orders
ManualRequests ==
    {NotJson, Json(EmptyDict)} \cup {Json(signal_data) : signal_data \in Signals}

\* resp when the latest step sent no response
NoResponse == [endpoint |-> "none"]

Response(endpoint, code, status) == [endpoint |-> endpoint, code |-> code, status |-> status]

\* the keys of the JSON body a handler answers with after its broker call
ResponseKeys(endpoint, status) ==
    IF endpoint = "POST /webhook" THEN
        IF status = "error" THEN {"status", "message", "broker_error"}
        ELSE {"status", "internal_order_id", "broker_response"}
    ELSE IF endpoint = "POST /orders" THEN
        IF status = "error" THEN {"status", "message", "broker_error", "broker_response"}
        ELSE {"status", "message", "internal_order_id", "broker_response"}
    ELSE
        IF status = "error" THEN {"status", "message", "broker_error"}
        ELSE {"status", "message", "broker_response"}

\* a response sent after a broker call: its code and body keys, with the
\* order (None when create_order_record returned no id) and the exchange
\* (history)
BrokerResponse(endpoint, code, status, internal_order_id, http) ==
    [endpoint |-> endpoint, code |-> code, status |-> status,
     keys |-> ResponseKeys(endpoint, status),
     id |-> internal_order_id, http |-> http]

\* a placement call as placed records it
Placement(internal_order_id, method) == [id |-> internal_order_id, method |-> method]

\* the id the remote broker gives the order of a submission
RemoteOrderId(internal_order_id) ==
    CASE internal_order_id = Some(1) -> "o1"
      [] internal_order_id = Some(2) -> "o2"
      [] OTHER -> "o3"

\* a submission handler past create_order_record, about to call the broker
SubmitHandler(endpoint, internal_order_id, trade_params) ==
    [endpoint |-> endpoint, id |-> internal_order_id, trade_params |-> trade_params]

\* from process_signal's result on: create_order_record, which returns None
\* when the INSERT raises sqlite3.Error (db_error); create_manual_order checks
\* the id, handle_webhook goes on without one
SubmitCreate(endpoint, signal_data, processed, db_error) ==
    IF TruthyText(processed.error)
        THEN /\ nreq < MaxRequests
             /\ resp' = Response(endpoint, 400, "error")
             /\ nreq' = nreq + 1
             /\ UNCHANGED <<columns, orders, submitting, cancelling, lastCall, placed, configVars, clockVars>>
    ELSE IF db_error /\ endpoint = "POST /orders"
        THEN /\ nreq < MaxRequests
             /\ resp' = Response(endpoint, 500, "error")
             /\ nreq' = nreq + 1
             /\ UNCHANGED <<columns, orders, submitting, cancelling, lastCall, placed, configVars, clockVars>>
    ELSE /\ nreq < MaxRequests
         /\ Len(orders) < MaxOrders
         /\ orders' = IF db_error THEN orders
                      ELSE create_order_record(orders, signal_data, processed.params[1], clock)
         /\ submitting' = submitting (+)
                SetToBag({SubmitHandler(endpoint,
                                        IF db_error THEN Null ELSE Some(Len(orders')),
                                        processed.params[1])})
         /\ nreq' = nreq + 1
         /\ resp' = NoResponse
         /\ UNCHANGED <<columns, cancelling, lastCall, placed, configVars, clockVars>>

\* handle_webhook up to the broker call
WebhookBegin(request, db_error) ==
    /\ nreq < MaxRequests
    /\ LET endpoint == "POST /webhook" IN
       IF ~request.is_json
           THEN /\ nreq < MaxRequests
                /\ resp' = Response(endpoint, 400, "error")
                /\ nreq' = nreq + 1
                /\ UNCHANGED <<columns, orders, submitting, cancelling, lastCall, placed, configVars, clockVars>>
       ELSE IF WEBHOOK_SHARED_SECRET # Null
               /\ Get(request.json, "webhook_secret") # WEBHOOK_SHARED_SECRET
           THEN /\ nreq < MaxRequests
                /\ resp' = Response(endpoint, 403, "error")
                /\ nreq' = nreq + 1
                /\ UNCHANGED <<columns, orders, submitting, cancelling, lastCall, placed, configVars, clockVars>>
       ELSE SubmitCreate(endpoint, request.json,
                         process_signal(ServerConfig, request.json), db_error)

\* create_manual_order up to the broker call; a body that is not JSON is
\* answered by request.get_json() itself (415) or parses to None (400),
\* whichever the installed Flask does
ManualBegin(request, db_error) ==
    /\ nreq < MaxRequests
    /\ LET endpoint == "POST /orders" IN
       IF ~request.is_json
           THEN /\ nreq < MaxRequests
                /\ \E code \in {400, 415} : resp' = Response(endpoint, code, "error")
                /\ nreq' = nreq + 1
                /\ UNCHANGED <<columns, orders, submitting, cancelling, lastCall, placed, configVars, clockVars>>
       ELSE IF DOMAIN request.json = {}
           THEN /\ nreq < MaxRequests
                /\ resp' = Response(endpoint, 400, "error")
                /\ nreq' = nreq + 1
                /\ UNCHANGED <<columns, orders, submitting, cancelling, lastCall, placed, configVars, clockVars>>
       ELSE SubmitCreate(endpoint, request.json,
                         process_signal(ServerConfig, request.json), db_error)

\* `not price` for the order types handle_webhook wants a price for
MissingPrice(trade_params) ==
    /\ trade_params.order_type \in {"LIMIT", "STOP"}
    /\ ("price" \notin DOMAIN trade_params \/ trade_params.price = 0)

\* handle_webhook / create_manual_order from the broker call to the response;
\* an id of None matches no row of the table; handle_webhook answers a LIMIT
\* or STOP order without price before any call
SubmitFinish(handler) ==
    /\ BagIn(handler, submitting)
    /\ IF handler.endpoint = "POST /webhook" /\ MissingPrice(handler.trade_params)
          THEN /\ resp' = Response(handler.endpoint, 500, "error")
               /\ UNCHANGED <<orders, placed, clockVars>>
          ELSE
            /\ LET method == placement_method(handler.trade_params.order_type) IN
               placed' = IF method = Null THEN placed
                         ELSE placed (+) SetToBag({Placement(handler.id, method[1])})
            /\ \E http \in order_exchanges(ActiveBroker,
                                   order_request(ActiveBroker, handler.trade_params),
                                   {RemoteOrderId(handler.id)}) :
                 LET result == place_order(ActiveBroker, handler.trade_params.order_type,
                                           http)
                     endpoint == handler.endpoint
                 IN  /\ orders' = update_order_with_submission_response(
                              orders, IF handler.id = Null THEN 0 ELSE handler.id[1],
                              result.reply, result.error, clock)
                     /\ resp' = IF TruthyText(result.error)
                           THEN BrokerResponse(endpoint,
                                    IF endpoint = "POST /webhook" THEN 500 ELSE 400,
                                    "error", handler.id, http)
                           ELSE BrokerResponse(endpoint,
                                    IF endpoint = "POST /webhook" THEN 200 ELSE 201,
                                    "success", handler.id, http)
    /\ submitting' = submitting (-) SetToBag({handler})
    /\ UNCHANGED <<columns, cancelling, lastCall, nreq, configVars, clockVars>>

\* str(e) of exceptions a placement call or the store update can raise past
\* their own handlers: one without text, a conversion error, and one whose
\* text names the broker
ExceptionTexts ==
    {<<>>,
     <<"could", "not", "convert", "string", "to", "float:", "'n/a'">>,
     <<"Oanda", "session", "is", "closed">>}

\* handle_webhook / create_manual_order when the broker call raises e: the
\* except branch stores str(e) as the error and answers 500
SubmitRaise(handler, e) ==
    /\ BagIn(handler, submitting)
    /\ ~(handler.endpoint = "POST /webhook" /\ MissingPrice(handler.trade_params))
    /\ LET method == placement_method(handler.trade_params.order_type) IN
       placed' = IF method = Null THEN placed
                 ELSE placed (+) SetToBag({Placement(handler.id, method[1])})
    /\ orders' = update_order_with_submission_response(
                     orders, IF handler.id = Null THEN 0 ELSE handler.id[1], Null, Some(e),
                     clock)
    /\ resp' = [endpoint |-> handler.endpoint, code |-> 500, status |-> "error",
                id |-> handler.id, exception |-> e]
    /\ submitting' = submitting (-) SetToBag({handler})
    /\ UNCHANGED <<columns, cancelling, lastCall, nreq, configVars, clockVars>>

\* a refusal of cancel_specific_order, with the id in the request's URL (history)
CancelRefusal(code, internal_order_id) ==
    [endpoint |-> "POST /orders/<id>/cancel", code |-> code, status |-> "error",
     id |-> Some(internal_order_id)]

\* cancel_specific_order without the check of the order's status
CancelBegin_any_status(internal_order_id) ==
    LET order_to_cancel == get_order_by_id(orders, internal_order_id)
    IN  IF order_to_cancel = Null
            THEN /\ nreq < MaxRequests
                 /\ resp' = CancelRefusal(404, internal_order_id)
                 /\ nreq' = nreq + 1
                 /\ UNCHANGED <<columns, orders, submitting, cancelling, lastCall, placed, configVars, clockVars>>
        ELSE IF order_to_cancel[1].oanda_order_id = Null
            THEN /\ nreq < MaxRequests
                 /\ resp' = CancelRefusal(400, internal_order_id)
                 /\ nreq' = nreq + 1
                 /\ UNCHANGED <<columns, orders, submitting, cancelling, lastCall, placed, configVars, clockVars>>
        ELSE /\ nreq < MaxRequests
             /\ cancelling' = cancelling (+)
                    SetToBag({[id |-> internal_order_id,
                               oanda_order_id |-> order_to_cancel[1].oanda_order_id[1]]})
             /\ nreq' = nreq + 1
             /\ resp' = NoResponse
             /\ UNCHANGED <<columns, orders, submitting, lastCall, placed, configVars, clockVars>>

\* cancel_specific_order up to the broker call: lookup and validation
CancelBegin(internal_order_id) ==
    /\ nreq < MaxRequests
    /\ LET order_to_cancel == get_order_by_id(orders, internal_order_id)
       IN  IF order_to_cancel = Null
               THEN /\ nreq < MaxRequests
                    /\ resp' = CancelRefusal(404, internal_order_id)
                    /\ nreq' = nreq + 1
                    /\ UNCHANGED <<columns, orders, submitting, cancelling, lastCall, placed, configVars, clockVars>>
           ELSE IF order_to_cancel[1].oanda_order_id = Null
                    \/ order_to_cancel[1].status \notin {"ORDER_ACCEPTED", "PENDING_FILL"}
               THEN /\ nreq < MaxRequests
                    /\ resp' = CancelRefusal(400, internal_order_id)
                    /\ nreq' = nreq + 1
                    /\ UNCHANGED <<columns, orders, submitting, cancelling, lastCall, placed, configVars, clockVars>>
           ELSE /\ nreq < MaxRequests
                /\ cancelling' = cancelling (+)
                       SetToBag({[id |-> internal_order_id,
                                  oanda_order_id |-> order_to_cancel[1].oanda_order_id[1]]})
                /\ nreq' = nreq + 1
                /\ resp' = NoResponse
                /\ UNCHANGED <<columns, orders, submitting, lastCall, placed, configVars, clockVars>>

\* cancel_specific_order from the broker call to the response
CancelFinish(handler) ==
    /\ BagIn(handler, cancelling)
    /\ \E http \in cancel_exchanges(ActiveBroker, handler.oanda_order_id) :
         LET result == cancel_order(ActiveBroker, handler.oanda_order_id, http) IN
         /\ orders' = update_order_with_submission_response(
                          orders, handler.id, result.reply, result.error, clock)
         /\ resp' = IF TruthyText(result.error)
                       THEN BrokerResponse("POST /orders/<id>/cancel", 500, "error",
                                           Some(handler.id), http)
                       ELSE BrokerResponse("POST /orders/<id>/cancel", 200, "success",
                                           Some(handler.id), http)
    /\ cancelling' = cancelling (-) SetToBag({handler})
    /\ UNCHANGED <<columns, submitting, lastCall, nreq, placed, configVars, clockVars>>

\* list_all_positions; store_error records whether the store query failed
ListAllPositions(db_error) ==
    /\ LET all_positions == get_all_positions(orders, columns, db_error) IN
       resp' = IF all_positions.raised
                  THEN [endpoint |-> "GET /positions", code |-> 500, status |-> "error",
                        store_error |-> QueryFails(columns, db_error)]
                  ELSE [endpoint |-> "GET /positions", code |-> 200, status |-> "success",
                        positions |-> all_positions.value,
                        store_error |-> QueryFails(columns, db_error)]
    /\ UNCHANGED <<columns, orders, submitting, cancelling, lastCall, nreq, placed, configVars, clockVars>>

\* get_instrument_position; store_error records whether the store query failed
GetInstrumentPosition(instrument_name, db_error) ==
    /\ LET instrument_sanitized == upper(instrument_name) IN
       resp' = [endpoint |-> "GET /positions/<instrument>", code |-> 200,
                status |-> "success",
                instrument |-> instrument_sanitized,
                net_position |-> get_position(orders, columns, instrument_sanitized, db_error),
                store_error |-> QueryFails(columns, db_error)]
    /\ UNCHANGED <<columns, orders, submitting, cancelling, lastCall, nreq, placed, configVars, clockVars>>

\* the variables the tests' .env sets, as _load_env_vars captures them
DotEnv == [WEBHOOK_SHARED_SECRET |-> "testsecret123"]

\* last_processed before any process_signal call
NoSignal == [signal_data |-> Null]

-----------------------------------------------------------------------------
(* The server: handlers running concurrently against the store created by  *)
(* initialize_database                                                     *)

Init ==
    /\ columns = OrdersColumns
    /\ orders = <<>>
    /\ submitting = EmptyBag
    /\ cancelling = EmptyBag
    /\ resp = NoResponse
    /\ lastCall = [id |-> 0]
    /\ nreq = 0
    /\ placed = EmptyBag
    /\ config_file = Null
    /\ _env_vars = DotEnv
    /\ _config = Some(initialize_config(Null, config_file, _env_vars))
    /\ last_processed = NoSignal
    /\ clock = 0
    /\ updating = EmptyBag

Next ==
    \/ \E request \in WebhookRequests, db_error \in BOOLEAN : WebhookBegin(request, db_error)
    \/ \E request \in ManualRequests, db_error \in BOOLEAN : ManualBegin(request, db_error)
    \/ \E handler \in BagToSet(submitting) : SubmitFinish(handler)
    \/ \E internal_order_id \in 1..(Len(orders) + 1) : CancelBegin(internal_order_id)
    \/ \E handler \in BagToSet(cancelling) : CancelFinish(handler)

Spec == Init /\ [][Next]_vars

\* the server when a placement call or the store update may also raise an
\* exception the handler's except branch catches
FaultNext ==
    \/ Next
    \/ \E handler \in BagToSet(submitting), e \in ExceptionTexts : SubmitRaise(handler, e)

FaultSpec == Init /\ [][FaultNext]_vars

-----------------------------------------------------------------------------
(* The store API called directly (as tests/test_order_manager.py does),    *)
(* with the replies and errors either broker implementation returns.       *)
(* update_order_with_submission_response takes any id at any time.         *)

\* trade parameters a direct caller stores
StoreTradeParams ==
    {[instrument |-> "EUR_USD", units |-> 1, order_type |-> "MARKET"],
     [instrument |-> "USD_JPY", units |-> -2, order_type |-> "LIMIT"]}

\* the signal a set of trade parameters came from
SignalOf(params) ==
    [instrument |-> params.instrument,
     action |-> IF params.units > 0 THEN "buy" ELSE "sell",
     quantity |-> abs(params.units)]

Brokers == {"oanda", "alpaca"}

\* history of a store update: the order and its status before the call, and
\* the broker exchange whose (reply, error) the call was given
StoreCall(op, internal_order_id, broker, http, result) ==
    [op |-> op, id |-> internal_order_id, was |-> orders[internal_order_id].status,
     broker |-> broker, http |-> http, reply |-> result.reply, error |-> result.error]

\* replies a caller passes without a broker exchange behind them
DirectReplies ==
    {[orderRejectTransaction |-> [rejectReason |-> "INSUFFICIENT_MARGIN", id |-> "t1"]]}

StoreCreate(processed_params) ==
    /\ nreq < MaxStoreCalls
    /\ orders' = create_order_record(orders, SignalOf(processed_params),
                                     processed_params, clock)
    /\ nreq' = nreq + 1
    /\ UNCHANGED <<columns, submitting, cancelling, resp, lastCall, placed, configVars, clockVars>>

\* a placement through broker, its result written to the store
StorePlace(broker, internal_order_id) ==
    /\ nreq < MaxStoreCalls
    /\ internal_order_id \in 1..Len(orders)
    /\ LET trade_params == orders[internal_order_id].processed_params_json[1] IN
       \E http \in order_exchanges(broker, order_request(broker, trade_params),
                                   BrokerOrderIds) :
          LET result == place_order(broker, trade_params.order_type, http) IN
          /\ orders' = update_order_with_submission_response(
                           orders, internal_order_id, result.reply, result.error, clock)
          /\ lastCall' = StoreCall("place", internal_order_id, broker, http, result)
          /\ LET method == placement_method(trade_params.order_type) IN
             placed' = IF method = Null THEN placed
                       ELSE placed (+) SetToBag({Placement(Some(internal_order_id),
                                                           method[1])})
    /\ nreq' = nreq + 1
    /\ UNCHANGED <<columns, submitting, cancelling, resp, configVars, clockVars>>

\* a cancellation through broker of an order that has a broker id, its result
\* written to the store
StoreCancel(broker, internal_order_id) ==
    /\ nreq < MaxStoreCalls
    /\ internal_order_id \in 1..Len(orders)
    /\ orders[internal_order_id].oanda_order_id # Null
    /\ LET order_id == orders[internal_order_id].oanda_order_id[1] IN
       \E http \in cancel_exchanges(broker, order_id) :
          LET result == cancel_order(broker, order_id, http) IN
          /\ orders' = update_order_with_submission_response(
                           orders, internal_order_id, result.reply, result.error, clock)
          /\ lastCall' = StoreCall("cancel", internal_order_id, broker, http, result)
    /\ nreq' = nreq + 1
    /\ UNCHANGED <<columns, submitting, cancelling, resp, placed, configVars, clockVars>>

\* update_order_with_submission_response(id, oanda_response=reply)
StoreApply(internal_order_id, reply) ==
    /\ nreq < MaxStoreCalls
    /\ internal_order_id \in 1..Len(orders)
    /\ orders' = update_order_with_submission_response(
                     orders, internal_order_id, Some(reply), Null, clock)
    /\ lastCall' = StoreCall("apply", internal_order_id, "none", [outcome |-> "direct"],
                             BrokerResult(Some(reply), Null))
    /\ nreq' = nreq + 1
    /\ UNCHANGED <<columns, submitting, cancelling, resp, placed, configVars, clockVars>>

StoreNext ==
    \/ \E processed_params \in StoreTradeParams : StoreCreate(processed_params)
    \/ \E broker \in Brokers, internal_order_id \in 1..Len(orders) :
          StorePlace(broker, internal_order_id)
    \/ \E broker \in Brokers, internal_order_id \in 1..Len(orders) :
          StoreCancel(broker, internal_order_id)
    \/ \E internal_order_id \in 1..Len(orders), reply \in DirectReplies :
          StoreApply(internal_order_id, reply)

StoreSpec == Init /\ [][StoreNext]_vars

-----------------------------------------------------------------------------
(* The store API called directly by concurrent callers while the clock      *)
(* advances.  update_order_with_submission_response reads the clock when it *)
(* starts and writes the row later; other calls run in between.  Between   *)
(* two readings the clock stands still or advances a tick.  An id of 0      *)
(* matches no record.                                                       *)

\* a reply with a create and a fill transaction, and one with a create only
FillReply ==
    [orderCreateTransaction |-> [id |-> "o1"],
     orderFillTransaction |-> [orderID |-> "o1", tradeOpened |-> [tradeID |-> "t1"],
                               price |-> "1.0950", units |-> "1"]]

CreateReply == [orderCreateTransaction |-> [id |-> "o2"]]

\* (oanda_response, oanda_error) as callers pass them: a reply alone, an
\* error alone, and both (the error naming the broker or not)
UpdateArguments ==
    {<<Some(FillReply), Null>>,
     <<Null, Some(<<"Request", "exception", "placing", "order:", "Read", "timed", "out.">>)>>,
     <<Some(FillReply),
       Some(<<"Oanda", "API", "error", "placing", "order:", "INSUFFICIENT_MARGIN">>)>>,
     <<Some(CreateReply),
       Some(<<"Request", "exception", "placing", "order:", "Read", "timed", "out.">>)>>}

\* create_order_record at a reading now of the clock; it returns the new id
ClockCreate(processed_params, now) ==
    /\ nreq < MaxStoreCalls
    /\ clock' = now
    /\ orders' = create_order_record(orders, SignalOf(processed_params), processed_params,
                                     now)
    /\ lastCall' = [op |-> "create_order_record", id |-> Len(orders'),
                    signal_data |-> SignalOf(processed_params),
                    processed_params |-> processed_params,
                    returned |-> Some(Len(orders'))]
    /\ nreq' = nreq + 1
    /\ UNCHANGED <<columns, submitting, cancelling, resp, placed, configVars, updating>>

\* update_order_with_submission_response up to its reading of the clock
UpdateBegin(internal_order_id, arguments, now) ==
    /\ nreq < MaxStoreCalls
    /\ clock' = now
    /\ updating' = updating (+)
           SetToBag({[id |-> internal_order_id, oanda_response |-> arguments[1],
                      oanda_error |-> arguments[2], now_utc |-> now]})
    /\ nreq' = nreq + 1
    /\ UNCHANGED <<columns, orders, submitting, cancelling, resp, lastCall, placed,
                   configVars>>

\* update_order_with_submission_response from its SELECT to its return: the
\* updated record, None when no row matched
UpdateCommit(call) ==
    /\ BagIn(call, updating)
    /\ orders' = update_order_with_submission_response(
                     orders, call.id, call.oanda_response, call.oanda_error, call.now_utc)
    /\ lastCall' = [op |-> "update_order_with_submission_response"] @@ call
                   @@ [returned |-> get_order_by_id(orders', call.id)]
    /\ updating' = updating (-) SetToBag({call})
    /\ UNCHANGED <<columns, submitting, cancelling, resp, nreq, placed, configVars, clock>>

ClockNext ==
    \/ \E processed_params \in StoreTradeParams, now \in {clock, clock + 1} :
          ClockCreate(processed_params, now)
    \/ \E internal_order_id \in 0..Len(orders), arguments \in UpdateArguments,
          now \in {clock, clock + 1} :
          UpdateBegin(internal_order_id, arguments, now)
    \/ \E call \in BagToSet(updating) : UpdateCommit(call)

ClockSpec == Init /\ [][ClockNext]_vars

-----------------------------------------------------------------------------
(* The position endpoints, on the store as initialize_database creates it  *)
(* and on the table of tests/test_position_manager.py, which has an        *)
(* instrument column.                                                      *)

\* the columns of the table the position tests create
FixtureColumns == OrdersColumns \cup {"instrument"}

\* a row as the position tests insert it: the other columns are NULL
FixtureRow(fill_quantity, instrument, status) ==
    [fill_quantity |-> fill_quantity, instrument |-> Some(instrument), status |-> status]

\* rows of the kinds the sample has: fills in both directions, and an open
\* order with a quantity; a FILLED row always has a quantity, since the one
\* UPDATE that writes FILLED writes fill_quantity with it
FixtureRows ==
    {FixtureRow(Some(q), i, "FILLED") : q \in {1, -1, 2}, i \in Instruments}
    \cup {FixtureRow(Some(1), i, "PENDING_FILL") : i \in Instruments}
    \cup {FixtureRow(Null, i, "PENDING_SUBMISSION") : i \in Instruments}

FixtureInsert(row) ==
    /\ "instrument" \in columns
    /\ Len(orders) < MaxFixtureRows
    /\ orders' = Append(orders, row)
    /\ UNCHANGED <<columns, submitting, cancelling, resp, lastCall, nreq, placed, configVars, clockVars>>

PositionInit ==
    /\ columns \in {OrdersColumns, FixtureColumns}
    /\ orders = <<>>
    /\ submitting = EmptyBag
    /\ cancelling = EmptyBag
    /\ resp = NoResponse
    /\ lastCall = [id |-> 0]
    /\ nreq = 0
    /\ placed = EmptyBag
    /\ config_file = Null
    /\ _env_vars = DotEnv
    /\ _config = Some(initialize_config(Null, config_file, _env_vars))
    /\ last_processed = NoSignal
    /\ clock = 0
    /\ updating = EmptyBag

PositionNext ==
    \/ \E row \in FixtureRows : FixtureInsert(row)
    \/ \E db_error \in BOOLEAN : ListAllPositions(db_error)
    \/ \E instrument_name \in {"EUR_USD", "usd_jpy"}, db_error \in BOOLEAN :
          GetInstrumentPosition(instrument_name, db_error)

PositionSpec == PositionInit /\ [][PositionNext]_vars

-----------------------------------------------------------------------------
(* process_signal called directly (as tests/test_signal_processor.py does)  *)
(* on signals of every shape, under the configuration loaded from           *)
(* config.yaml.                                                             *)

\* the contents of config.yaml: global defaults only; an allow-list with a
\* per-instrument default and minimum; an empty allow-list with a zero
\* default quantity and a per-instrument maximum
ConfigTrees ==
    {[trading |-> [defaults |-> [quantity |-> 2]]],
     [trading |->
         [allowed_instruments |-> <<"EUR_USD", "USD_JPY">>,
          defaults |-> [quantity |-> 1, order_type |-> "LIMIT"],
          instrument_settings |->
              [EUR_USD |-> [default_quantity |-> 2],
               USD_JPY |-> [min_quantity |-> 2]]]],
     [trading |-> [allowed_instruments |-> <<>>, defaults |-> [quantity |-> 0],
                   instrument_settings |-> [GBP_USD |-> [max_quantity |-> 1]]],
      oanda |-> [base_url |-> "https://yaml-url.com"]]}

\* config.yaml: missing, or holding one of the trees
ConfigFiles == {Null} \cup {Some(tree) : tree \in ConfigTrees}

\* a field a signal may leave out
Optional(key, values) == {EmptyDict} \cup {[k \in {key} |-> v] : v \in values}

\* signals with and without each field; prices in 1/10000
ProcessorSignals ==
    {i @@ a @@ q @@ t @@ p @@ s :
        i \in Optional("instrument", {"EUR_USD", "usd_jpy", "GBP_USD", ""}),
        a \in Optional("action", {"buy", "SELL", "hold"}),
        q \in Optional("quantity", {-1, 0, 1, 2}),
        t \in Optional("type", {"market", "limit", "STOP", "iceberg"}),
        p \in Optional("price", {0, 10950}),
        s \in {EmptyDict, [stop_loss |-> 11050],
               [stop_loss |-> 11050, take_profit |-> 10900]}}

\* a call of process_signal under the loaded configuration
ProcessSignal(signal_data) ==
    /\ LET cfg == ServerConfig
           result == process_signal(cfg, signal_data)
       IN  last_processed' = [signal_data |-> Some(signal_data), cfg |-> cfg,
                              params |-> result.params, error |-> result.error]
    /\ resp' = NoResponse
    /\ UNCHANGED <<columns, orders, submitting, cancelling, lastCall, nreq, placed,
                   config_file, _config, _env_vars,
                   clockVars>>

ProcessorInit ==
    /\ columns = OrdersColumns
    /\ orders = <<>>
    /\ submitting = EmptyBag
    /\ cancelling = EmptyBag
    /\ resp = NoResponse
    /\ lastCall = [id |-> 0]
    /\ nreq = 0
    /\ placed = EmptyBag
    /\ config_file \in ConfigFiles
    /\ _env_vars = DotEnv
    /\ _config = Some(initialize_config(Null, config_file, _env_vars))
    /\ last_processed \in {[signal_data |-> Some(signal_data)] :
                               signal_data \in ProcessorSignals}
    /\ clock = 0
    /\ updating = EmptyBag

\* the call drawn at the start returns
ProcessorNext ==
    /\ "params" \notin DOMAIN last_processed
    /\ ProcessSignal(last_processed.signal_data[1])

ProcessorSpec == ProcessorInit /\ [][ProcessorNext]_vars

-----------------------------------------------------------------------------
(* The configuration endpoints, with process_signal reading the loaded      *)
(* configuration.  config.yaml holds YAML text; config_file is the tree the *)
(* text encodes (yaml.dump of a JSON object, read back by yaml.safe_load).  *)

\* .env with and without OANDA_API_URL
DotEnvs ==
    {DotEnv, DotEnv @@ [OANDA_API_URL |-> "https://api-fxpractice.oanda.com"]}

\* bodies posted to /config
ConfigRequests == {NotJson, Json(EmptyDict)} \cup {Json(tree) : tree \in ConfigTrees}

\* signals processed between configuration requests
ConfigSignals ==
    {[instrument |-> "EUR_USD", action |-> "buy"],
     [instrument |-> "GBP_USD", action |-> "sell", quantity |-> 1]}

\* the answer of update_config, with the posted body (history)
ConfigResponse(code, status, new_config_data) ==
    [endpoint |-> "POST /config", code |-> code, status |-> status,
     body |-> new_config_data]

\* update_config: write the body to config.yaml, then
\* initialize_config(force_reload=True); an exception is answered 500
UpdateConfig(request) ==
    LET endpoint == "POST /config" IN
    IF ~request.is_json
        THEN /\ \E code \in {400, 415} : resp' = Response(endpoint, code, "error")
             /\ UNCHANGED <<columns, orders, submitting, cancelling, lastCall, nreq, placed,
                            configVars,
                            clockVars>>
    ELSE IF DOMAIN request.json = {}
        THEN /\ resp' = Response(endpoint, 400, "error")
             /\ UNCHANGED <<columns, orders, submitting, cancelling, lastCall, nreq, placed,
                            configVars,
                            clockVars>>
    ELSE /\ config_file' = Some(request.json)
         /\ IF initialize_config_accepts({"force_reload"})
               THEN /\ _config' = Some(initialize_config(_config, config_file', _env_vars))
                    /\ resp' = ConfigResponse(200, "success", request.json)
               ELSE /\ _config' = _config
                    /\ resp' = ConfigResponse(500, "error", request.json)
         /\ UNCHANGED <<columns, orders, submitting, cancelling, lastCall, nreq, placed,
                        _env_vars, last_processed,
                        clockVars>>

\* get_config: the loaded tree, 500 when it is None or empty
GetConfig ==
    /\ resp' = IF TruthyDict(_config)
                  THEN [endpoint |-> "GET /config", code |-> 200, status |-> "success",
                        config |-> _config[1]]
                  ELSE Response("GET /config", 500, "error")
    /\ UNCHANGED <<columns, orders, submitting, cancelling, lastCall, nreq, placed,
                   configVars,
                   clockVars>>

\* a further call initialize_config()
InitializeConfig ==
    /\ _config' = Some(initialize_config(_config, config_file, _env_vars))
    /\ resp' = NoResponse
    /\ UNCHANGED <<columns, orders, submitting, cancelling, lastCall, nreq, placed,
                   config_file, _env_vars, last_processed,
                   clockVars>>

ConfigInit ==
    /\ columns = OrdersColumns
    /\ orders = <<>>
    /\ submitting = EmptyBag
    /\ cancelling = EmptyBag
    /\ resp = NoResponse
    /\ lastCall = [id |-> 0]
    /\ nreq = 0
    /\ placed = EmptyBag
    /\ config_file \in ConfigFiles
    /\ _env_vars \in DotEnvs
    /\ _config = Some(initialize_config(Null, config_file, _env_vars))
    /\ last_processed = NoSignal
    /\ clock = 0
    /\ updating = EmptyBag

ConfigNext ==
    \/ \E request \in ConfigRequests : UpdateConfig(request)
    \/ GetConfig
    \/ InitializeConfig
    \/ \E signal_data \in ConfigSignals : ProcessSignal(signal_data)

ConfigSpec == ConfigInit /\ [][ConfigNext]_vars

-----------------------------------------------------------------------------
(* The broker factory, called after the configuration was loaded from a     *)
(* config.yaml and a .env of every shape                                    *)

\* the broker section of config.yaml: missing, or naming a broker
BrokerSections ==
    {EmptyDict} \cup {[broker |-> [name |-> name]] :
                          name \in {"oanda", "OANDA", "alpaca", "kraken", ""}}

\* the brokers section of config.yaml: missing, with Oanda's base URL, or with
\* Alpaca's base URL and keys as well
BrokersSections ==
    {EmptyDict,
     [brokers |-> [oanda |-> [base_url |-> "https://yaml-url.com"]]],
     [brokers |-> [oanda |-> [base_url |-> "https://yaml-url.com"],
                   alpaca |-> [base_url |-> "https://paper-api.alpaca.markets"]],
      ALPACA_API_KEY_ID |-> "alpaca-key-id",
      ALPACA_API_SECRET_KEY |-> "alpaca-secret"]}

FactoryFiles == {Some(b @@ bs) : b \in BrokerSections, bs \in BrokersSections}

\* .env with and without each Oanda variable; the key may be set to nothing
FactoryEnvs ==
    {DotEnv @@ k @@ a @@ u :
        k \in Optional("OANDA_API_KEY", {"", "test-key"}),
        a \in Optional("OANDA_ACCOUNT_ID", {"101-001-1234567-001"}),
        u \in Optional("OANDA_API_URL", {"https://api-fxpractice.oanda.com"})}

\* broker = get_broker(), with what it raised or returned (history)
GetBroker ==
    /\ lastCall' = [id |-> 0, op |-> "get_broker"] @@ get_broker(_env_vars, _config[1])
    /\ resp' = NoResponse
    /\ UNCHANGED <<columns, orders, submitting, cancelling, nreq, placed, configVars, clockVars>>

FactoryInit ==
    /\ columns = OrdersColumns
    /\ orders = <<>>
    /\ submitting = EmptyBag
    /\ cancelling = EmptyBag
    /\ resp = NoResponse
    /\ lastCall = [id |-> 0]
    /\ nreq = 0
    /\ placed = EmptyBag
    /\ config_file \in FactoryFiles
    /\ _env_vars \in FactoryEnvs
    /\ _config = Some(initialize_config(Null, config_file, _env_vars))
    /\ last_processed = NoSignal
    /\ clock = 0
    /\ updating = EmptyBag

FactoryNext == GetBroker

FactorySpec == FactoryInit /\ [][FactoryNext]_vars

-----------------------------------------------------------------------------
(* The placement methods of an AlpacaBroker called directly (as             *)
(* tests/test_alpaca_implementation.py does), with orders of every shape    *)

\* config.yaml with Alpaca's settings, without and with a time_in_force
AlpacaFiles ==
    LET alpaca == [brokers |-> [alpaca |-> [base_url |-> "https://paper-api.alpaca.markets"]],
                   ALPACA_API_KEY_ID |-> "alpaca-key-id",
                   ALPACA_API_SECRET_KEY |-> "alpaca-secret"]
    IN  {Some(alpaca),
         Some(alpaca @@ [trading |-> [defaults |-> [time_in_force |-> "DAY"]]])}

\* optional prices in 1/10000, 0.0 among them
StopLosses == {Null, Some(0), Some(11050)}
TakeProfits == {Null, Some(0), Some(10900)}

\* the arguments of a placement call; place_market_order takes no price
AlpacaCalls ==
    {[id |-> 0, op |-> method,
      args |-> [instrument |-> instrument, units |-> units,
                price |-> IF method = "place_market_order" THEN Null ELSE Some(10950),
                stop_loss |-> stop_loss, take_profit |-> take_profit]] :
        method \in {"place_market_order", "place_limit_order", "place_stop_order"},
        instrument \in {"AAPL", "EUR_USD"},
        units \in {-2, -1, 0, 1, 2},
        stop_loss \in StopLosses,
        take_profit \in TakeProfits}

\* the call drawn at the start: the request is posted and the method returns
AlpacaPlace ==
    /\ "request" \notin DOMAIN lastCall
    /\ LET args == lastCall.args
           request == AlpacaBroker_order_data(lastCall.op, _env_vars, _config[1],
                                              args.instrument, args.units, args.price,
                                              args.stop_loss, args.take_profit)
       IN  \E http \in AlpacaOrderExchanges(request, {"o1"}) :
               LET result == AlpacaBroker_place_order(http) IN
               lastCall' = lastCall @@ [request |-> request, http |-> http,
                                        reply |-> result.reply, error |-> result.error]
    /\ resp' = NoResponse
    /\ UNCHANGED <<columns, orders, submitting, cancelling, nreq, placed, configVars, clockVars>>

AlpacaInit ==
    /\ columns = OrdersColumns
    /\ orders = <<>>
    /\ submitting = EmptyBag
    /\ cancelling = EmptyBag
    /\ resp = NoResponse
    /\ lastCall \in AlpacaCalls
    /\ nreq = 0
    /\ placed = EmptyBag
    /\ config_file \in AlpacaFiles
    /\ _env_vars = DotEnv
    /\ _config = Some(initialize_config(Null, config_file, _env_vars))
    /\ AlpacaBroker_init(_env_vars, _config[1]).broker # Null
    /\ last_processed = NoSignal
    /\ clock = 0
    /\ updating = EmptyBag

AlpacaNext == AlpacaPlace

AlpacaSpec == AlpacaInit /\ [][AlpacaNext]_vars

-----------------------------------------------------------------------------
(* Properties *)

Terminal(status) ==
    status \in {"FILLED", "REJECTED_BY_BROKER", "CANCELLED", "ERROR_SUBMITTING"}

Rows == 1..Len(orders)

\* C1: once an order's status is FILLED, REJECTED_BY_BROKER, CANCELLED or
\* ERROR_SUBMITTING, no later update_order_with_submission_response on that
\* order changes its status.
C1_TerminalStatusKept ==
    [][\A i \in Rows : Terminal(orders[i].status) => orders'[i].status = orders[i].status]_vars

\* C2: when two handlers write the same order, the terminal status written
\* first stays: the later update is rejected and leaves the whole record
\* (status, broker ids, fill fields, stored reply, error message) as it was.
C2_FirstTerminalWins ==
    [][\A i \in Rows : Terminal(orders[i].status) => orders'[i] = orders[i]]_vars

\* C3: every status change of an order whose status is ORDER_ACCEPTED goes to
\* CANCELLED or to FILLED, whatever (reply, error) the cancel handler passes
\* to the store.
C3_AcceptedMovesToCancelledOrFilled ==
    [][\A i \in Rows :
          (orders[i].status = "ORDER_ACCEPTED" /\ orders'[i].status # "ORDER_ACCEPTED")
              => orders'[i].status \in {"CANCELLED", "FILLED"}]_vars

\* C4: once an order's broker order id (column oanda_order_id) is non-null, no
\* later update changes it to another value or back to null.
C4_BrokerOrderIdSetOnce ==
    [][\A i \in Rows :
          orders[i].oanda_order_id # Null
              => orders'[i].oanda_order_id = orders[i].oanda_order_id]_vars

\* C5: every order with status FILLED has fill_quantity # 0 and fill_price > 0.
C5_FilledHasQuantityAndPrice ==
    \A i \in Rows :
        orders[i].status = "FILLED"
            => /\ orders[i].fill_quantity # Null
               /\ orders[i].fill_quantity[1] # 0
               /\ orders[i].fill_price # Null
               /\ orders[i].fill_price[1] > 0

sign(n) == IF n > 0 THEN 1 ELSE IF n < 0 THEN -1 ELSE 0

\* C6: every FILLED order has sign(fill_quantity) = sign(params.units), for
\* both brokers and both directions.
C6_FillSignMatchesUnits ==
    \A i \in Rows :
        orders[i].status = "FILLED"
            => /\ orders[i].fill_quantity # Null
               /\ sign(orders[i].fill_quantity[1])
                      = sign(orders[i].processed_params_json[1].units)

\* the map instrument -> sum of fill_quantity over the FILLED orders whose
\* parameters name that instrument, zero sums left out
ExpectedPositions(table) ==
    LET filled == {i \in 1..Len(table) : table[i].status = "FILLED"}
        of(g) == {i \in filled : table[i].processed_params_json[1].instrument = g}
        groups == {table[i].processed_params_json[1].instrument : i \in filled}
        held == {g \in groups : SqlSum(table, of(g)) \notin {Null, Some(0)}}
    IN  [k \in {Some(g) : g \in held} |-> SqlSum(table, of(k[1]))[1]]

\* C7: on the store created by initialize_database, after any sequence of
\* create_order_record and update_order_with_submission_response calls,
\* get_all_positions() is the map instrument -> sum of fill_quantity over the
\* FILLED orders for that instrument, zero sums left out.
C7_AllPositionsIsGroupedSum ==
    LET all_positions == get_all_positions(orders, columns, FALSE) IN
    /\ ~all_positions.raised
    /\ all_positions.value = ExpectedPositions(orders)

\* the FILLED rows of the position table for an instrument
FilledFor(instrument) ==
    {i \in Rows : orders[i].status = "FILLED" /\ orders[i].instrument = Some(instrument)}

\* C8: for every instrument X, get_position(X) equals
\* get_all_positions().get(X, 0); an instrument with no FILLED orders, or
\* whose fills sum to zero, has position 0 and is absent from
\* get_all_positions().
C8_PositionAgreesWithAllPositions ==
    LET all_positions == get_all_positions(orders, columns, FALSE) IN
    /\ ~all_positions.raised
    /\ \A X \in Instruments :
         LET position == get_position(orders, columns, X, FALSE) IN
         /\ position = IF Some(X) \in DOMAIN all_positions.value
                          THEN all_positions.value[Some(X)]
                          ELSE 0
         /\ ("instrument" \in columns
               /\ (FilledFor(X) = {} \/ SumOver(orders, FilledFor(X)) = 0))
              => /\ position = 0
                 /\ Some(X) \notin DOMAIN all_positions.value

\* C8 happens: GET /positions has answered on a table where one instrument
\* has fills that sum to zero and another has only an open order that carries
\* a quantity
C8_Witness ==
    /\ "instrument" \in columns
    /\ resp.endpoint = "GET /positions"
    /\ resp.status = "success"
    /\ resp.positions = get_all_positions(orders, columns, FALSE).value
    /\ \E X \in Instruments : FilledFor(X) # {} /\ get_position(orders, columns, X, FALSE) = 0
    /\ \E Y \in Instruments :
          /\ FilledFor(Y) = {}
          /\ \E i \in Rows : orders[i].instrument = Some(Y) /\ orders[i].fill_quantity # Null

\* C9: when the store query fails during a position read, GET /positions and
\* GET /positions/{instrument} answer with status error and a 5xx code.
C9_StoreFailureIsAnErrorResponse ==
    ("store_error" \in DOMAIN resp /\ resp.store_error)
        => (resp.status = "error" /\ resp.code >= 500)

\* a non-2xx body in the shape of a broker's refusal
RefusalBody(d) ==
    \/ "orderRejectTransaction" \in DOMAIN d
    \/ "orderCancelRejectTransaction" \in DOMAIN d
    \/ "errorMessage" \in DOMAIN d
    \/ "message" \in DOMAIN d

\* the class of a failed exchange: no response at all is Transport, a non-2xx
\* response with a refusal body is BrokerRefusal, anything else is Internal
ErrorClass(http) ==
    IF http.outcome = "RequestException" THEN "Transport"
    ELSE IF http.outcome = "HTTPError" /\ http.body.is_json /\ RefusalBody(http.body.json)
        THEN "BrokerRefusal"
    ELSE "Internal"

\* C10: an update with an error stores REJECTED_BY_BROKER exactly when the
\* error is a broker refusal and ERROR_SUBMITTING for every transport or local
\* error, for errors of both OandaBroker and AlpacaBroker; error_message holds
\* the error text.
C10_ErrorStatusFollowsErrorClass ==
    (lastCall.id # 0 /\ TruthyText(lastCall.error))
        => LET row == orders[lastCall.id]
               refused == ErrorClass(lastCall.http) = "BrokerRefusal"
           IN  /\ row.status = IF refused THEN "REJECTED_BY_BROKER" ELSE "ERROR_SUBMITTING"
               /\ row.error_message = lastCall.error

\* the row the latest direct store call updated
CalledRow == orders[lastCall.id]

\* the latest store call gave a reply and no error to an order that was in status was
AppliedReplyTo(was) ==
    /\ lastCall.id # 0
    /\ lastCall.was = was
    /\ ~TruthyText(lastCall.error)
    /\ TruthyDict(lastCall.reply)

\* C11: for a PENDING_SUBMISSION order, a reply with orderFillTransaction and
\* no error gives FILLED with the broker order id = orderID, the trade id =
\* tradeOpened.tradeID and fill_price, fill_quantity from the transaction; a
\* reply with orderCreateTransaction and no fill gives ORDER_ACCEPTED with the
\* broker order id = the transaction id; the stored reply is the reply.
C11_FillAndCreateReplies ==
    AppliedReplyTo("PENDING_SUBMISSION") =>
        LET r == lastCall.reply[1] IN
        /\ "orderFillTransaction" \in DOMAIN r =>
              LET fill_tx == r.orderFillTransaction IN
              /\ CalledRow.status = "FILLED"
              /\ CalledRow.oanda_order_id = Get(fill_tx, "orderID")
              /\ "tradeOpened" \in DOMAIN fill_tx =>
                    CalledRow.oanda_trade_id = Get(fill_tx.tradeOpened, "tradeID")
              /\ "price" \in DOMAIN fill_tx =>
                    CalledRow.fill_price = Some(float(fill_tx.price))
              /\ "units" \in DOMAIN fill_tx =>
                    CalledRow.fill_quantity = Some(float(fill_tx.units))
              /\ CalledRow.broker_response_json = Some(r)
        /\ ("orderCreateTransaction" \in DOMAIN r /\ "orderFillTransaction" \notin DOMAIN r) =>
              /\ CalledRow.status = "ORDER_ACCEPTED"
              /\ CalledRow.oanda_order_id = Get(r.orderCreateTransaction, "id")
              /\ CalledRow.broker_response_json = Some(r)

\* C11 happens: a PENDING_SUBMISSION order was given a fill reply that opens a
\* trade and is now FILLED at the reply's price
C11_Witness ==
    /\ AppliedReplyTo("PENDING_SUBMISSION")
    /\ "orderFillTransaction" \in DOMAIN lastCall.reply[1]
    /\ "tradeOpened" \in DOMAIN lastCall.reply[1].orderFillTransaction
    /\ CalledRow.status = "FILLED"
    /\ CalledRow.oanda_trade_id = Some("t1")
    /\ CalledRow.fill_price = Some(10950)

\* the latest step answered a request after a broker call that returned reply
\* (a 2xx body, no error) for an order that has a record
RespondedWithReply ==
    /\ "http" \in DOMAIN resp
    /\ resp.http.outcome = "ok"
    /\ resp.id # Null

RespondedRow == orders[resp.id[1]]

\* C12: every reply without error that contains orderCancelTransaction and no
\* fill, with or without an orderCreateTransaction beside it, gives CANCELLED
\* with the broker order id = the transaction's orderID and an error_message
\* containing the cancel reason; the cancel handler then answers 200.
C12_CancelTransactionGivesCancelled ==
    (RespondedWithReply
       /\ "orderCancelTransaction" \in DOMAIN resp.http.json
       /\ "orderFillTransaction" \notin DOMAIN resp.http.json) =>
        LET cancel_tx == resp.http.json.orderCancelTransaction IN
        /\ RespondedRow.status = "CANCELLED"
        /\ RespondedRow.oanda_order_id = Get(cancel_tx, "orderID")
        /\ RespondedRow.error_message # Null
        /\ Contains(RespondedRow.error_message[1], cancel_tx.reason)
        /\ resp.endpoint = "POST /orders/<id>/cancel" => resp.code = 200

\* the latest store call gave a reply and no error
AppliedReply ==
    /\ lastCall.id # 0
    /\ ~TruthyText(lastCall.error)
    /\ TruthyDict(lastCall.reply)

\* C13: every reply without a separate error that contains
\* orderRejectTransaction gives REJECTED_BY_BROKER with error_message = the
\* reject reason.
C13_RejectTransactionGivesRejected ==
    (AppliedReply /\ "orderRejectTransaction" \in DOMAIN lastCall.reply[1]) =>
        /\ CalledRow.status = "REJECTED_BY_BROKER"
        /\ CalledRow.error_message # Null
        /\ Contains(CalledRow.error_message[1],
                    lastCall.reply[1].orderRejectTransaction.rejectReason)

\* C14: when AlpacaBroker.cancel_order succeeds, its synthesized reply
\* {status: cancellation_requested, order_id} fed to the store gives CANCELLED
\* and keeps the broker order id.
C14_AlpacaCancelGivesCancelled ==
    (lastCall.id # 0 /\ lastCall.op = "cancel" /\ lastCall.broker = "alpaca"
       /\ lastCall.http.outcome = "ok") =>
        /\ CalledRow.status = "CANCELLED"
        /\ CalledRow.oanda_order_id = Some(lastCall.reply[1].order_id)

\* an Alpaca order entity: a reply with id and client_order_id
AlpacaEntity(r) ==
    /\ "id" \in DOMAIN r
    /\ "client_order_id" \in DOMAIN r
    /\ {"orderFillTransaction", "orderCreateTransaction", "orderCancelTransaction"}
          \cap DOMAIN r = {}

\* C15: for an Alpaca order entity with no error, status accepted, new or
\* pending_new gives ORDER_ACCEPTED with the broker order id = reply.id (so
\* also for an accepted bracket order); status filled gives FILLED with the
\* broker order id = reply.id and fill_price, fill_quantity captured.
C15_AlpacaEntityReplies ==
    (AppliedReply /\ AlpacaEntity(lastCall.reply[1])) =>
        LET r == lastCall.reply[1] IN
        /\ r.status \in {"accepted", "new", "pending_new"} =>
              /\ CalledRow.status = "ORDER_ACCEPTED"
              /\ CalledRow.oanda_order_id = Some(r.id)
        /\ r.status = "filled" =>
              /\ CalledRow.status = "FILLED"
              /\ CalledRow.oanda_order_id = Some(r.id)
              /\ CalledRow.fill_price # Null
              /\ CalledRow.fill_quantity # Null
              /\ "filled_avg_price" \in DOMAIN r =>
                    CalledRow.fill_price = Some(float(r.filled_avg_price))
              /\ "filled_qty" \in DOMAIN r =>
                    CalledRow.fill_quantity = Some(float(r.filled_qty))

\* C15 happens: an accepted Alpaca bracket order is stored
C15_Witness ==
    /\ AppliedReply
    /\ AlpacaEntity(lastCall.reply[1])
    /\ lastCall.broker = "alpaca"
    /\ lastCall.reply[1].status = "accepted"
    /\ "order_class" \in DOMAIN lastCall.reply[1]
    /\ lastCall.reply[1].order_class = "bracket"
    /\ CalledRow.status = "ORDER_ACCEPTED"
    /\ CalledRow.oanda_order_id = Some(lastCall.reply[1].id)

\* a reply of none of the shapes the store is to recognise
Unrecognized(r) ==
    /\ {"orderFillTransaction", "orderCreateTransaction", "orderCancelTransaction",
        "orderRejectTransaction"} \cap DOMAIN r = {}
    /\ ~("id" \in DOMAIN r /\ "client_order_id" \in DOMAIN r
           /\ Get(r, "status") \in {Some("accepted"), Some("new"), Some("pending_new"),
                                    Some("filled")})
    /\ Get(r, "status") # Some("cancellation_requested")

\* C16: every reply returned without error that matches no recognised shape
\* (an empty JSON object included) gives SUBMITTED_TO_BROKER, captures no
\* broker order id and no fill fields, and the submission handler answers 2xx.
C16_UnrecognizedGivesSubmitted ==
    (RespondedWithReply
       /\ resp.endpoint \in {"POST /webhook", "POST /orders"}
       /\ Unrecognized(resp.http.json)) =>
        /\ RespondedRow.status = "SUBMITTED_TO_BROKER"
        /\ RespondedRow.oanda_order_id = Null
        /\ RespondedRow.fill_price = Null
        /\ RespondedRow.fill_quantity = Null
        /\ resp.code \in {200, 201}

SubmitEndpoints == {"POST /webhook", "POST /orders"}

\* C17: every POST /webhook or POST /orders request answered with 400 or 403
\* leaves the order store unchanged and makes no broker call.
C17_ClientErrorTouchesNothing ==
    [][(resp' # NoResponse /\ resp'.endpoint \in SubmitEndpoints /\ resp'.code \in {400, 403})
          => /\ orders' = orders
             /\ submitting' = submitting
             /\ "http" \notin DOMAIN resp']_vars

\* C18: no order's stored signal contains a webhook_secret field.
C18_SecretNotStored ==
    \A i \in Rows : "webhook_secret" \notin DOMAIN orders[i].signal_data_json[1]

\* C19: in both submission handlers a broker placement call happens only after
\* create_order_record has written the request's record: no handler is at
\* the broker call without a record, and no answer follows a broker call made
\* without one.
C19_CreateBeforeBrokerCall ==
    /\ \A handler \in BagToSet(submitting) :
          handler.id # Null /\ handler.id[1] \in Rows
    /\ ("http" \in DOMAIN resp /\ resp.endpoint \in SubmitEndpoints) => resp.id # Null

\* C20: the store update for a created order is done before the response is
\* returned, so no order whose submission handler has responded is still
\* PENDING_SUBMISSION.
C20_RespondedOrdersLeftPending ==
    \A i \in Rows :
        (\A handler \in BagToSet(submitting) : handler.id # Some(i))
            => orders[i].status # "PENDING_SUBMISSION"

\* the placement calls made for the order of row i
PlacementsFor(i) == {p \in BagToSet(placed) : p.id = Some(i)}

\* the broker operation an order_type selects
SelectedOperation(order_type) ==
    CASE order_type = "MARKET" -> "place_market_order"
      [] order_type = "LIMIT" -> "place_limit_order"
      [] order_type = "STOP" -> "place_stop_order"

C22_BrokerErrorIsServerError ==
    ("http" \in DOMAIN resp /\ resp.endpoint \in SubmitEndpoints) =>
        IF resp.http.outcome # "ok"
            THEN /\ resp.code \in 500..599
                 /\ {"broker_error", "internal_order_id"} \subseteq resp.keys
            ELSE /\ resp.code = IF resp.endpoint = "POST /webhook" THEN 200 ELSE 201
                 /\ {"internal_order_id", "broker_response"} \subseteq resp.keys

CancelEndpoint == "POST /orders/<id>/cancel"

\* the latest step answered a cancel request without calling the broker
CancelRefused == resp.endpoint = CancelEndpoint /\ "http" \notin DOMAIN resp

Returned == "params" \in DOMAIN last_processed

\* its signal, and its result: trade parameters and no error, or an error
\* and no parameters
Signal == last_processed.signal_data[1]
Accepted == Returned /\ last_processed.params # Null /\ last_processed.error = Null
Refused == Returned /\ last_processed.params = Null /\ TruthyText(last_processed.error)
Params == last_processed.params[1]

OrderTypes == {"MARKET", "LIMIT", "STOP"}

\* the signal's type upper-cased, the configured default when it has none
SignalType ==
    upper(IF "type" \in DOMAIN Signal THEN Signal.type
                                      ELSE last_processed.cfg.default_order_type)

\* C24: process_signal returns params.order_type equal to the upper-cased
\* signal type (the configured default when the signal has none), always one
\* of MARKET, LIMIT, STOP; a signal whose type is outside that set gets an
\* error and no params.
C24_OrderTypeFollowsSignalType ==
    Returned =>
        /\ SignalType \notin OrderTypes => Refused
        /\ Accepted => (Params.order_type = SignalType /\ Params.order_type \in OrderTypes)

PricedType == SignalType \in {"LIMIT", "STOP"}

GoodPrice == "price" \in DOMAIN Signal /\ Signal.price > 0

\* C25: a signal whose type is LIMIT or STOP is accepted only with a price
\* > 0, which is returned as params.price; with the price missing or <= 0 it
\* gets an error and no params.
C25_LimitAndStopNeedPrice ==
    (Returned /\ PricedType) =>
        /\ Accepted => (GoodPrice /\ "price" \in DOMAIN Params /\ Params.price = Signal.price)
        /\ ~GoodPrice => Refused

\* C26: for an accepted signal, params carry the signal's stop_loss and
\* take_profit when they are > 0 (the values the placement call is then
\* given), and neither when the signal has none.
C26_StopLossTakeProfitPassedOn ==
    Accepted =>
        \A k \in {"stop_loss", "take_profit"} :
            IF k \in DOMAIN Signal /\ Signal[k] > 0
                THEN k \in DOMAIN Params /\ Params[k] = Signal[k]
                ELSE k \notin DOMAIN Params

HasField(k) == k \in DOMAIN Signal

\* the setting key of the signal's instrument, None when not configured
Setting(key) ==
    LET settings == last_processed.cfg.instrument_settings IN
    IF HasField("instrument") /\ upper(Signal.instrument) \in DOMAIN settings
          /\ key \in DOMAIN settings[upper(Signal.instrument)]
        THEN Some(settings[upper(Signal.instrument)][key])
        ELSE Null

\* the quantity a signal resolves to: its own, else the instrument's
\* default_quantity, else the global default
ResolvedQuantity ==
    IF HasField("quantity") THEN Signal.quantity
    ELSE IF Setting("default_quantity") # Null THEN Setting("default_quantity")[1]
    ELSE last_processed.cfg.default_quantity

\* an empty allow-list admits every instrument
InstrumentAllowed ==
    \/ last_processed.cfg.allowed_instruments = {}
    \/ upper(Signal.instrument) \in last_processed.cfg.allowed_instruments

BelowMin == Setting("min_quantity") # Null /\ ResolvedQuantity < Setting("min_quantity")[1]
AboveMax == Setting("max_quantity") # Null /\ ResolvedQuantity > Setting("max_quantity")[1]

\* the rules a signal violates, by the check that is to catch each
Violations ==
    {k \in {"required", "instrument", "action", "type", "price", "quantity", "bounds"} :
        CASE k = "required" -> ~HasField("instrument") \/ ~HasField("action")
          [] k = "instrument" ->
                 HasField("instrument") /\ (Signal.instrument = "" \/ ~InstrumentAllowed)
          [] k = "action" -> HasField("action") /\ lower(Signal.action) \notin {"buy", "sell"}
          [] k = "type" -> SignalType \notin OrderTypes
          [] k = "price" -> PricedType /\ ~GoodPrice
          [] k = "quantity" -> ResolvedQuantity <= 0
          [] k = "bounds" -> BelowMin \/ AboveMax}

CheckOrder == <<"required", "instrument", "action", "type", "price", "quantity", "bounds">>

\* the earliest check in the order that a violated rule fails
FirstViolation ==
    CheckOrder[CHOOSE i \in 1..Len(CheckOrder) :
                  /\ CheckOrder[i] \in Violations
                  /\ \A j \in 1..(i - 1) : CheckOrder[j] \notin Violations]

\* the check an error message of process_signal reports
ErrorKind(error) ==
    CASE error[1] = "Missing" -> "required"
      [] error[1] = "Instrument" -> "instrument"
      [] error[1] = "Invalid" /\ error[2] = "action:" -> "action"
      [] error[1] = "Invalid" /\ error[2] = "quantity:" -> "quantity"
      [] error[1] = "Quantity" -> "bounds"
      [] OTHER -> "other"

\* C27: for a signal that violates several rules at once, process_signal
\* reports the failure of the earliest check in the order required fields,
\* instrument, action, type, price/SL/TP, quantity, min/max bounds (an invalid
\* type with a non-positive quantity is reported as the type error).
C27_EarliestCheckReported ==
    (Returned /\ Cardinality(Violations) >= 2) =>
        /\ Refused
        /\ ErrorKind(last_processed.error[1]) = FirstViolation

\* C28: for every accepted signal params.units = +q for buy and -q for sell,
\* q > 0 being the resolved quantity, so units is never 0 and its sign
\* matches the action; any other action (lower-cased) is an error.
C28_UnitsSignedByAction ==
    Returned =>
        /\ Accepted =>
              /\ lower(Signal.action) \in {"buy", "sell"}
              /\ ResolvedQuantity > 0
              /\ Params.units = IF lower(Signal.action) = "buy" THEN ResolvedQuantity
                                                                ELSE -ResolvedQuantity
              /\ Params.units # 0
        /\ (HasField("action") /\ lower(Signal.action) \notin {"buy", "sell"}) => Refused

\* C28 happens: an upper-case SELL without quantity was accepted with the
\* global default 2 as units -2
C28_Witness ==
    /\ Accepted
    /\ Signal.action = "SELL"
    /\ ~HasField("quantity")
    /\ last_processed.cfg.default_quantity = 2
    /\ Params.units = -2

\* C29: process_signal resolves the quantity as the signal's quantity, else
\* the instrument's default_quantity, else the global default; it returns an
\* error when the resolved quantity is zero or negative, below the
\* instrument's min_quantity or above its max_quantity, and when the
\* instrument is not in a non-empty allow-list; an empty allow-list admits
\* every instrument.
C29_QuantityResolution ==
    Returned =>
        /\ Accepted =>
              /\ abs(Params.units) = ResolvedQuantity
              /\ ResolvedQuantity > 0
              /\ ~BelowMin /\ ~AboveMax
              /\ InstrumentAllowed
        /\ (ResolvedQuantity <= 0 \/ BelowMin \/ AboveMax) => Refused
        /\ (HasField("instrument") /\ ~InstrumentAllowed) => Refused
        /\ (Refused /\ last_processed.cfg.allowed_instruments = {} /\ HasField("instrument")
               /\ Signal.instrument # "")
              => ErrorKind(last_processed.error[1]) # "instrument"

\* C29 happens: a signal without quantity for an instrument whose
\* default_quantity is 2, the global default being 1, was accepted with 2 units
C29_Witness ==
    /\ Accepted
    /\ ~HasField("quantity")
    /\ Setting("default_quantity") = Some(2)
    /\ last_processed.cfg.default_quantity = 1
    /\ abs(Params.units) = 2

\* the latest step answered a POST /config that had a JSON body
ConfigPosted(r) == r.endpoint = "POST /config" /\ "body" \in DOMAIN r

\* C30: a POST /config with a JSON body succeeds, the configuration file then
\* holds the body and the reload has swapped the in-memory tree, so a
\* following GET /config and a following config lookup return the posted
\* values; calling initialize_config again without force_reload leaves the
\* loaded tree unchanged.
C30_PostedConfigIsLoaded ==
    [][/\ ConfigPosted(resp') =>
             /\ resp'.code = 200
             /\ config_file' = Some(resp'.body)
             /\ _config' = Some(resp'.body)
       /\ (ConfigPosted(resp) /\ resp'.endpoint = "GET /config") =>
             /\ resp'.code = 200
             /\ resp'.config = resp.body
       /\ (ConfigPosted(resp) /\ last_processed' # last_processed) =>
             last_processed'.cfg = TradingConfig(resp.body)
       /\ (config_file' = config_file /\ resp' = NoResponse) => _config' = _config
      ]_vars

\* the value config.yaml gives a key path, None when it gives none
FileValue(parts) == config_walk(_load_yaml_config(config_file), parts)

FactoryCalled == "op" \in DOMAIN lastCall /\ lastCall.op = "get_broker"

\* C31: when OANDA_API_URL is set in .env and config.yaml sets
\* brokers.oanda.base_url to a different value, the lookup of
\* brokers.oanda.base_url gives the OANDA_API_URL value, and so does the
\* base_url of the OandaBroker the factory returns.
C31_EnvUrlShadowsFileUrl ==
    (/\ FactoryCalled
     /\ "OANDA_API_URL" \in DOMAIN _env_vars
     /\ FileValue(<<"brokers", "oanda", "base_url">>) # Null
     /\ FileValue(<<"brokers", "oanda", "base_url">>) # Some(_env_vars.OANDA_API_URL))
    => /\ get(_env_vars, _config[1], <<"brokers", "oanda", "base_url">>, Null)
              = Some(_env_vars.OANDA_API_URL)
       /\ lastCall.broker # Null /\ lastCall.broker[1].class = "OandaBroker"
              => lastCall.broker[1].base_url = _env_vars.OANDA_API_URL

\* what the loaded configuration gives a key
Configured(parts) == get(_env_vars, _config[1], parts, Null)

\* the implementations by broker name
SupportedBrokers == [oanda |-> "OandaBroker", alpaca |-> "AlpacaBroker"]

\* the named broker's credentials and base URL are all set
FullyConfigured(name) ==
    IF name = "oanda"
        THEN /\ TruthyString(Configured(<<"OANDA_API_KEY">>))
             /\ TruthyString(Configured(<<"OANDA_ACCOUNT_ID">>))
             /\ \/ TruthyString(Configured(<<"brokers", "oanda", "base_url">>))
                \/ TruthyString(Configured(<<"OANDA_API_URL">>))
        ELSE /\ TruthyString(Configured(<<"ALPACA_API_KEY_ID">>))
             /\ TruthyString(Configured(<<"ALPACA_API_SECRET_KEY">>))
             /\ TruthyString(Configured(<<"brokers", "alpaca", "base_url">>))

\* C32: get_broker returns an OandaBroker when broker.name is oanda and an
\* AlpacaBroker when it is alpaca, and raises, returning no broker, when the
\* name is unset or unknown or the named broker's credentials or base URL
\* are missing.
C32_FactoryReturnsNamedBroker ==
    FactoryCalled =>
        LET name == Configured(<<"broker", "name">>) IN
        IF ~TruthyString(name) \/ lower(name[1]) \notin DOMAIN SupportedBrokers
            THEN lastCall.raised # Null /\ lastCall.broker = Null
        ELSE IF name[1] \in DOMAIN SupportedBrokers
            THEN IF FullyConfigured(name[1])
                    THEN /\ lastCall.raised = Null
                         /\ lastCall.broker # Null
                         /\ lastCall.broker[1].class = SupportedBrokers[name[1]]
                    ELSE lastCall.raised # Null /\ lastCall.broker = Null
        ELSE TRUE

AlpacaPlaced == "request" \in DOMAIN lastCall

\* a stop loss or take profit is given: a price, not None and not 0.0
Given(price) == price # Null /\ price[1] # 0

AlpacaTypes ==
    [place_market_order |-> "market", place_limit_order |-> "limit",
     place_stop_order |-> "stop"]

RaisedAfterCreate == "exception" \in DOMAIN resp /\ resp.id # Null

\* C34: when a submission handler raises an exception after the order record
\* was created, the request is answered 5xx and the order's status becomes
\* ERROR_SUBMITTING with error_message the exception text, whatever the text
\* (empty, or naming a broker).
C34_ExceptionGivesErrorSubmitting ==
    RaisedAfterCreate =>
        /\ resp.code >= 500
        /\ orders[resp.id[1]].status = "ERROR_SUBMITTING"
        /\ orders[resp.id[1]].error_message = Some(resp.exception)

\* this step is the write and return of the update call
Committed(call) == BagIn(call, updating) /\ updating' = updating (-) SetToBag({call})

\* this step is a create_order_record call
Created == lastCall' # lastCall /\ lastCall'.op = "create_order_record"

\* the columns that identify a record and hold what it was created from
IdentityColumns ==
    {"internal_order_id", "signal_data_json", "processed_params_json",
     "timestamp_received", "timestamp_created"}

\* C35: update_order_with_submission_response leaves the order's
\* internal_order_id, signal, params, timestamp_received and timestamp_created
\* unchanged for every reply and error, so the record it returns after
\* create_order_record holds the signal and params passed to
\* create_order_record.
C35_UpdateKeepsIdentity ==
    [][/\ Created =>
            LET row == orders'[lastCall'.returned[1]] IN
            /\ row.signal_data_json = Some(lastCall'.signal_data)
            /\ row.processed_params_json = Some(lastCall'.processed_params)
       /\ \A call \in BagToSet(updating) : Committed(call) =>
            /\ \A i \in Rows : \A c \in IdentityColumns : orders'[i][c] = orders[i][c]
            /\ call.id \in Rows =>
                 /\ lastCall'.returned # Null
                 /\ \A c \in IdentityColumns : lastCall'.returned[1][c] = orders[call.id][c]
      ]_vars

\* an update written after the clock advanced, its record returned with a
\* new status
C35_Witness ==
    /\ "op" \in DOMAIN lastCall
    /\ lastCall.op = "update_order_with_submission_response"
    /\ lastCall.returned # Null
    /\ lastCall.returned[1].status = "FILLED"
    /\ lastCall.returned[1].timestamp_created < lastCall.returned[1].timestamp_updated
    /\ lastCall.returned[1].processed_params_json
           = Some([instrument |-> "USD_JPY", units |-> -2, order_type |-> "LIMIT"])

\* C36: for every order and every interleaving of writers,
\* timestamp_created <= timestamp_updated, and the timestamp_updated values
\* written to one record never decrease (a writer that read the clock
\* earlier never overwrites a later value).
C36_UpdatedNeverDecreases ==
    [][/\ \A i \in 1..Len(orders') :
             orders'[i].timestamp_created <= orders'[i].timestamp_updated
       /\ \A i \in Rows : orders[i].timestamp_updated <= orders'[i].timestamp_updated
      ]_vars

\* the new row is all of a fresh record: PENDING_SUBMISSION, no broker data,
\* one timestamp
FreshRecord(row) ==
    /\ row.status = "PENDING_SUBMISSION"
    /\ row.oanda_order_id = Null
    /\ row.oanda_trade_id = Null
    /\ row.fill_price = Null
    /\ row.fill_quantity = Null
    /\ row.broker_response_json = Null
    /\ row.error_message = Null
    /\ row.timestamp_received = row.timestamp_created
    /\ row.timestamp_created = row.timestamp_updated

\* C37: create_order_record adds exactly one record, with an id distinct
\* from all existing ids, status PENDING_SUBMISSION, null broker ids, fill
\* fields, broker reply and error message, and its three timestamps equal;
\* it returns that id, and leaves every existing record unchanged.
C37_CreateAddsOneFreshRecord ==
    [][Created =>
         /\ Len(orders') = Len(orders) + 1
         /\ SubSeq(orders', 1, Len(orders)) = orders
         /\ LET row == orders'[Len(orders')] IN
            /\ \A i \in Rows : orders[i].internal_order_id # row.internal_order_id
            /\ FreshRecord(row)
            /\ lastCall'.returned = Some(row.internal_order_id)
      ]_vars

\* a second record created later than the first, which has been updated
C37_Witness ==
    /\ "op" \in DOMAIN lastCall
    /\ lastCall.op = "create_order_record"
    /\ Len(orders) = 2
    /\ orders[1].status # "PENDING_SUBMISSION"
    /\ orders[2].timestamp_created > orders[1].timestamp_created
    /\ lastCall.returned = Some(orders[2].internal_order_id)

\* C38: update_order_with_submission_response on an id that matches no
\* record returns no record, creates no record and changes no record, for
\* every reply and error.
C38_UnknownIdChangesNothing ==
    [][\A call \in BagToSet(updating) :
          (Committed(call) /\ \A i \in Rows : orders[i].internal_order_id # call.id) =>
              /\ lastCall'.returned = Null
              /\ orders' = orders
      ]_vars

\* an update with a reply for an id matching none of the records there are
C38_Witness ==
    /\ "op" \in DOMAIN lastCall
    /\ lastCall.op = "update_order_with_submission_response"
    /\ lastCall.id = 0
    /\ lastCall.oanda_response # Null
    /\ lastCall.returned = Null
    /\ Len(orders) > 0

\* C40: when update_order_with_submission_response is given both a
\* non-empty error and a reply, the status comes from the error alone
\* (REJECTED_BY_BROKER when it names a broker, ERROR_SUBMITTING otherwise),
\* no broker order id, trade id or fill field is taken from the reply, even
\* when it holds a fill or create transaction, and the reply is still stored
\* as broker_response_json.
C40_ErrorOverridesReply ==
    [][\A call \in BagToSet(updating) :
          (/\ Committed(call)
           /\ call.id \in Rows
           /\ TruthyText(call.oanda_error)
           /\ call.oanda_response # Null) =>
              LET old == orders[call.id]
                  new == orders'[call.id]
                  names_broker == \/ Contains(call.oanda_error[1], "Oanda")
                                  \/ Contains(call.oanda_error[1], "Alpaca") IN
              /\ new.status = IF names_broker THEN "REJECTED_BY_BROKER"
                                              ELSE "ERROR_SUBMITTING"
              /\ new.error_message = call.oanda_error
              /\ new.oanda_order_id = old.oanda_order_id
              /\ new.oanda_trade_id = old.oanda_trade_id
              /\ new.fill_price = old.fill_price
              /\ new.fill_quantity = old.fill_quantity
              /\ new.broker_response_json = call.oanda_response
      ]_vars

\* a record never filled, rejected with a reply that holds a fill transaction
C40_Witness ==
    /\ "op" \in DOMAIN lastCall
    /\ lastCall.op = "update_order_with_submission_response"
    /\ lastCall.oanda_response = Some(FillReply)
    /\ TruthyText(lastCall.oanda_error)
    /\ lastCall.id \in Rows
    /\ orders[lastCall.id].status = "REJECTED_BY_BROKER"
    /\ orders[lastCall.id].broker_response_json = Some(FillReply)
    /\ orders[lastCall.id].oanda_order_id = Null
    /\ orders[lastCall.id].fill_price = Null

\* the handler whose step this is finishes the submission of order i
OwnSubmission(i) ==
    \E handler \in BagToSet(submitting) :
        /\ handler.id = Some(i)
        /\ submitting' = submitting (-) SetToBag({handler})

====
